---- MODULE Spec2Model ----
(***************************************************************************)
(* granola_bridge: the meeting maturation state machine of                 *)
(* core/daemon.py (Daemon.run and the three phases of a cycle), driven by  *)
(* the Granola cache file, the clock and the operator.                     *)
(*                                                                         *)
(* The store is the committed content of the meetings table.  A phase of   *)
(* a cycle is one action: _detect_new_meetings and                         *)
(* _check_meeting_maturation hold no await, and every write of             *)
(* _process_meeting is committed before the next await.  The two           *)
(* coroutines that run cycles (the task created at startup and the main    *)
(* loop) interleave only where the code awaits; the cache file, the clock, *)
(* the shutdown signal and the operator act while they are parked there.   *)
(***************************************************************************)
EXTENDS Integers, Sequences, FiniteSets, TLC

(* ------------------------------ bounds -------------------------------- *)
MaxTicks == 2          \* clock readings after the first
TickSeconds == 60      \* seconds between two clock readings
MaxDocs == 2           \* documents in the cache file
MaxQueue == 1          \* change signals waiting in _process_queue
MaxRuns == 2           \* times the daemon process is started
MaxReprocess == 1      \* operator reprocess requests
MaxExtracted == 2      \* action items one extraction returns
MaxUploads == 2        \* transcripts the operator uploads
MaxRetryTicks == 9     \* clock readings after the first, where retries run
MaxEntries == 2        \* rows of the retry_queue table
MaxAttemptLimit == 2   \* largest max_attempts a caller passes, the default aside
MaxResets == 1         \* times the operator presses "retry"

(* --------------------------- configuration ---------------------------- *)
\* config.granola.* as read at daemon.py:196-198
stability_window_seconds == 60
min_transcript_length == 50
max_wait_minutes == 2

\* config.py:27-29: RetryConfig
max_attempts == 5
base_delay_seconds == 30

\* granola_parser.py:151: a document with a shorter transcript is skipped
MinParsedLength == 20

(* ------------------------------ values -------------------------------- *)
None == "None"       \* a NULL string column
NoTime == 0 - 1      \* a NULL DateTime column

GranolaIds == {"g1", "g2"}

\* A transcript is known by its length and its wording.
Texts ==
    { [len |-> 10, rev |-> 0], [len |-> 30, rev |-> 0], [len |-> 60, rev |-> 0] }

\* GranolaMeeting.meeting_end_count, 0 while the conversation is live
EndCounts == {0, 1}

PENDING == "pending"
READY == "ready"
PROCESSING == "processing"
PROCESSED == "processed"
FAILED == "failed"

MeetingStatus == {PENDING, READY, PROCESSING, PROCESSED, FAILED}

\* models/action_item.py:17-21 (PENDING and FAILED are the same strings as above)
SENT == "sent"
SKIPPED == "skipped"
ActionItemStatus == {PENDING, SENT, FAILED, SKIPPED}

\* models/retry_queue.py:21-25
IN_PROGRESS == "in_progress"
SUCCEEDED == "succeeded"
FAILED_PERMANENT == "failed_permanent"
RetryStatus == {PENDING, IN_PROGRESS, SUCCEEDED, FAILED_PERMANENT}

\* models/retry_queue.py:15-18
TRELLO_CREATE_CARD == "trello_create_card"
LLM_EXTRACTION == "llm_extraction"
NOTIFICATION == "notification"
OperationType == {TRELLO_CREATE_CARD, LLM_EXTRACTION, NOTIFICATION}

Tasks == {"startup", "main"}

\* Where a coroutine is parked on an await (or not running at all).
SuspendedPCs == {"off", "wait", "extract", "alert", "publish", "done", "exit", "cancelled"}

\* positions at which the scheduler's task is not running: not created, created
\* and not yet run, in sleep(60), awaiting a handler, cancelled
SchedSuspendedPCs == {"off", "ready", "sleep", "handler", "cancelled"}

\* scheduler.py:65
PollSeconds == 60

\* daemon.py:58-61 registers this handler; the others stand for handlers a
\* caller registers with register_handler
Handlers == {"_retry_trello_card", "h1", "h2"}

\* no item is being dispatched
NoItem == [id |-> 0, attempt_count |-> 0, max_attempts |-> 0, handler |-> None]

VARIABLES
    now,        \* datetime.utcnow(), in seconds
    cache,      \* the documents of the Granola cache file
    meetings,   \* the meetings table, in insertion order
    running,    \* Daemon._running
    queue,      \* number of signals in Daemon._process_queue
    pc,         \* position of each coroutine
    ready,      \* ready_meetings still to process, per coroutine
    todo,       \* extracted items still to publish, per coroutine
    runs,       \* times the daemon was started
    reprocessed, \* operator reprocess requests so far
    action_items, \* the action_items table, in insertion order
    retry_queue,  \* the retry_queue table, in insertion order
    action_item,          \* the action item whose card a coroutine awaits
    handlers,     \* RetryScheduler.handlers
    srunning,     \* RetryScheduler._running
    spc,          \* position of the scheduler's _run_loop task
    due,          \* items of _process_pending still to process
    polled,       \* `items`, what the query of _process_pending returned
    wake,         \* when the scheduler's sleep(60) ends
    loaded,       \* the scheduler session's copy of the item it dispatched
    dirty,        \* writes of the scheduler's session not yet committed
    loops,        \* _run_loop tasks of the event loop that are not cancelled
    upc,          \* position of the upload request handler
    umeeting,     \* the meeting the upload request created
    utodo,        \* extracted items the upload request has still to publish
    uitem,        \* the action item whose card the upload request awaits
    uploads,      \* upload requests so far
    resets,       \* operator retry requests so far
    approving     \* the approve request that awaits Trello: << >> or
                  \* <<action item, status of its meeting as loaded>>

\* what _process_meeting and the routes write besides meetings
pipeVars == <<action_items, retry_queue, action_item>>

\* the state of the RetryScheduler
schedVars == <<handlers, srunning, spc, due, polled, wake, loaded, dirty, loops>>

\* the state of the upload request handler
webVars == <<upc, umeeting, utodo, uitem, uploads, resets, approving>>

vars == <<now, cache, meetings, running, queue, pc, ready, todo, runs, reprocessed,
          action_items, retry_queue, action_item, handlers, srunning, spc, due, polled, wake,
          loaded, dirty, loops,
          upc, umeeting, utodo, uitem, uploads, resets, approving>>

(* ------------------------- pure functions ----------------------------- *)
\* models/meeting.py: SHA256 of the transcript (collision free here)
compute_transcript_hash(t) == <<"sha256", t.len, t.rev>>

\* GranolaParser._parse_document: documents without a usable transcript are skipped
parse(c) == SelectSeq(c, LAMBDA d : d.text.len >= MinParsedLength)

\* GranolaParser.get_new_meetings
get_new_meetings(c, known_ids) ==
    SelectSeq(parse(c), LAMBDA d : d.id \notin known_ids)

\* GranolaParser.get_meeting_by_id: <<the first match>>, << >> for Python's None
get_meeting_by_id(c, g) ==
    LET hits == SelectSeq(parse(c), LAMBDA d : d.id = g)
    IN  IF hits = <<>> THEN <<>> ELSE <<Head(hits)>>

Range(s) == { s[i] : i \in DOMAIN s }

\* a database without the unique constraint
HasDuplicateIds_NoConstraint(docs) == FALSE

\* models/meeting.py:42: what the unique constraint on granola_id rejects
HasDuplicateIds(docs) ==
    \E i, j \in DOMAIN docs : i # j /\ docs[i].id = docs[j].id


(* ------------------------------ sessions ------------------------------ *)
\* an except branch that commits what the session wrote before the error
rollback_KeepsWrites(committed, written) == written

\* Session.rollback() (daemon.py:177, 268): what the session wrote since its
\* last commit is discarded, the table is as committed
rollback(committed, written) == committed

(* ---------------------- _check_meeting_maturation ---------------------- *)
\* daemon.py:204-208: the cache no longer holds the document
MarkReady(m) == [m EXCEPT !.status = READY]

\* AdoptChanged without line 217: the new transcript is stored, the timer runs on
AdoptChanged_KeepsTimer(m, cur, t) ==
    [m EXCEPT !.transcript = cur.text,
              !.transcript_hash = compute_transcript_hash(cur.text)]

\* AdoptChanged without line 216: the new transcript is stored under the old
\* fingerprint
AdoptChanged_KeepsHash(m, cur, t) ==
    [m EXCEPT !.transcript = cur.text,
              !.stable_since = t]

\* daemon.py:213-219: the transcript changed, the stability timer restarts
AdoptChanged(m, cur, t) ==
    [m EXCEPT !.transcript = cur.text,
              !.transcript_hash = compute_transcript_hash(cur.text),
              !.stable_since = t]

\* daemon.py:222-226: stable long enough and long enough
StableEnough(m, t) ==
    /\ m.stable_since # NoTime
    /\ t - m.stable_since >= stability_window_seconds
    /\ m.transcript.len >= min_transcript_length

\* EndGate without lines 228-233: a stable transcript alone makes the meeting READY
EndGate_IgnoresEnded(m, cur) == MarkReady(m)

\* daemon.py:227-236: only a meeting that has ended in Granola becomes READY
EndGate(m, cur) ==
    IF cur.meeting_end_count = 0 THEN m ELSE MarkReady(m)

\* daemon.py:239-241: minutes since first_seen_at (total_seconds() / 60)
TimedOut(m, t) ==
    /\ m.first_seen_at # NoTime
    /\ t - m.first_seen_at >= 60 * max_wait_minutes

\* daemon.py:242-262: the timeout branch, with its re-fetch of a short transcript
TimeoutGate(m, cur, t) ==
    IF ~TimedOut(m, t) THEN m
    ELSE IF m.transcript.len < min_transcript_length
         THEN LET m1 == IF cur.text.len > m.transcript.len
                        THEN [m EXCEPT !.transcript = cur.text,
                                       !.transcript_hash =
                                           compute_transcript_hash(cur.text)]
                        ELSE m
              IN  IF m1.transcript.len >= min_transcript_length
                  THEN MarkReady(m1)
                  ELSE m1
         ELSE MarkReady(m)

\* CheckMeeting without lines 204-208: a meeting whose document is gone waits
\* for its timeout with what it has stored
CheckMeeting_WaitsForDoc(m, c, t) ==
    LET current_data == get_meeting_by_id(c, m.granola_id)
        cur == current_data[1]
    IN  IF current_data = <<>>
        THEN (IF TimedOut(m, t) /\ m.transcript.len >= min_transcript_length
              THEN MarkReady(m) ELSE m)
        ELSE IF compute_transcript_hash(cur.text) # m.transcript_hash
             THEN AdoptChanged(m, cur, t)
        ELSE IF StableEnough(m, t) THEN EndGate(m, cur)
        ELSE TimeoutGate(m, cur, t)

\* daemon.py:200-262: the body of the loop, for one PENDING meeting
CheckMeeting(m, c, t) ==
    LET current_data == get_meeting_by_id(c, m.granola_id)
        cur == current_data[1]
    IN  IF current_data = <<>> THEN MarkReady(m)
        ELSE IF compute_transcript_hash(cur.text) # m.transcript_hash
             THEN AdoptChanged(m, cur, t)
        ELSE IF StableEnough(m, t) THEN EndGate(m, cur)
        ELSE TimeoutGate(m, cur, t)

\* daemon.py:188-193: the meetings the phase examines
IsWatched(m) == m.status = PENDING /\ m.granola_id # None

\* daemon.py:181-270: the table after the phase's commit
CheckedTable(ms, c, t) ==
    [i \in DOMAIN ms |-> IF IsWatched(ms[i]) THEN CheckMeeting(ms[i], c, t) ELSE ms[i]]

\* daemon.py:200-262: the session's rows when the loop has examined the
\* meetings before row k
PartlyChecked(ms, c, t, k) ==
    [i \in DOMAIN ms |->
        IF IsWatched(ms[i]) /\ i < k THEN CheckMeeting(ms[i], c, t) ELSE ms[i]]

(* ------------------------- _detect_new_meetings ------------------------ *)
\* daemon.py:145-150
KnownIds(ms) == { ms[i].granola_id : i \in DOMAIN ms } \ {None}

\* daemon.py:159-169
NewMeeting(d, t) ==
    [granola_id      |-> d.id,
     transcript      |-> d.text,
     transcript_hash |-> compute_transcript_hash(d.text),
     status          |-> PENDING,
     first_seen_at   |-> t,
     stable_since    |-> t,
     processed_at    |-> NoTime,
     error_message   |-> None]

\* daemon.py:153-177: one commit for the batch; the unique constraint on
\* granola_id (models/meeting.py:42) fails it as a whole
DetectedTable(ms, c, t) ==
    LET new == get_new_meetings(c, KnownIds(ms))
    IN  IF HasDuplicateIds(new) THEN ms
        ELSE ms \o [i \in DOMAIN new |-> NewMeeting(new[i], t)]


\* daemon.py:155-170: the session's rows when k of the new meetings are added
AddedTable(ms, c, t, k) ==
    LET new == get_new_meetings(c, KnownIds(ms))
    IN  ms \o [i \in 1..k |-> NewMeeting(new[i], t)]

(* ------------------------------ the daemon ----------------------------- *)
\* Coroutines of one event loop: one runs until it awaits.
MayRun(t) ==
    /\ \A u \in Tasks \ {t} : pc[u] \in SuspendedPCs
    /\ spc \in SchedSuspendedPCs

Alive == pc["main"] \notin {"off", "exit"}

\* the task of RetryScheduler._task exists and is not cancelled
TaskAlive == spc \notin {"off", "cancelled"}

\* Between two awaits a coroutine runs to its next await at once: the clock,
\* the cache file, the signals and the operator act while every coroutine is
\* parked.
Quiet ==
    /\ \A t \in Tasks : pc[t] \in SuspendedPCs
    /\ spc \in SchedSuspendedPCs

SetStatus(ms, i, st) == [ms EXCEPT ![i].status = st]

\* a query that also resumes the meetings a dead process left PROCESSING
ReadyMeetings_Resumes(ms) ==
    LET idx == [i \in DOMAIN ms |-> i]
    IN  SelectSeq(idx, LAMBDA i : ms[i].status \in {READY, PROCESSING})

\* daemon.py:279-283: the READY meetings, in table order
ReadyMeetings(ms) ==
    LET idx == [i \in DOMAIN ms |-> i]
    IN  SelectSeq(idx, LAMBDA i : ms[i].status = READY)

\* daemon.py:47-61, scheduler.py:21-38: the scheduler a new process builds
InitialHandlers ==
    [k \in OperationType |->
        IF k = TRELLO_CREATE_CARD THEN "_retry_trello_card" ELSE None]

\* main.py:51, daemon.py:63-83: the process starts; scheduler.start() creates
\* the scheduler's task (scheduler.py:48-55), the startup cycle is a task of
\* its own, the main loop awaits the queue
Run ==
    /\ ~Alive
    /\ runs < MaxRuns
    /\ runs' = runs + 1
    /\ running' = TRUE
    /\ queue' = 0
    /\ pc' = [startup |-> "detect", main |-> "wait"]
    /\ ready' = [t \in Tasks |-> <<>>]
    /\ todo' = [t \in Tasks |-> 0]
    /\ handlers' = InitialHandlers
    /\ srunning' = TRUE
    /\ spc' = "ready"
    /\ due' = <<>>
    /\ polled' = <<>>
    /\ wake' = 0
    /\ loaded' = NoItem
    /\ dirty' = <<>>
    /\ loops' = 1
    /\ UNCHANGED <<now, cache, meetings, reprocessed>>
    /\ UNCHANGED <<pipeVars, webVars>>

\* daemon.py:138-179
DetectNew(t) ==
    /\ pc[t] = "detect"
    /\ MayRun(t)
    /\ meetings' = DetectedTable(meetings, cache, now)
    /\ pc' = [pc EXCEPT ![t] = "mature"]
    /\ UNCHANGED <<now, cache, running, queue, ready, todo, runs, reprocessed>>
    /\ UNCHANGED <<pipeVars, schedVars, webVars>>

\* daemon.py:181-270
CheckMaturation(t) ==
    /\ pc[t] = "mature"
    /\ MayRun(t)
    /\ meetings' = CheckedTable(meetings, cache, now)
    /\ pc' = [pc EXCEPT ![t] = "process"]
    /\ UNCHANGED <<now, cache, running, queue, ready, todo, runs, reprocessed>>
    /\ UNCHANGED <<pipeVars, schedVars, webVars>>

\* daemon.py:153, 173-179: the cache file cannot be read (nothing is added
\* yet) or the commit of the batch fails (all of it is added); the except
\* branch rolls the session back and the cycle goes on
DetectNewError(t) ==
    /\ pc[t] = "detect"
    /\ MayRun(t)
    /\ \E k \in {0, Len(get_new_meetings(cache, KnownIds(meetings)))} :
          meetings' = rollback(meetings, AddedTable(meetings, cache, now, k))
    /\ pc' = [pc EXCEPT ![t] = "mature"]
    /\ UNCHANGED <<now, cache, running, queue, ready, todo, runs, reprocessed>>
    /\ UNCHANGED <<pipeVars, schedVars, webVars>>

\* granola_parser.py:54-63, 125-138: the cache file is missing or is not
\* valid JSON while the phase reads it (Granola is rewriting it): parse()
\* returns [] and get_meeting_by_id answers None for every meeting
CheckMaturationUnparsed(t) ==
    /\ pc[t] = "mature"
    /\ MayRun(t)
    /\ meetings' = CheckedTable(meetings, <<>>, now)
    /\ pc' = [pc EXCEPT ![t] = "process"]
    /\ UNCHANGED <<now, cache, running, queue, ready, todo, runs, reprocessed>>
    /\ UNCHANGED <<pipeVars, schedVars, webVars>>

\* daemon.py:202, 264-270: reading the cache for row k raises, or the commit
\* at the end of the loop fails (k past the last row); the except branch rolls
\* the session back and the cycle goes on
CheckMaturationError(t) ==
    /\ pc[t] = "mature"
    /\ MayRun(t)
    /\ \E k \in 1..(Len(meetings) + 1) :
          /\ k \in DOMAIN meetings => IsWatched(meetings[k])
          /\ meetings' = rollback(meetings, PartlyChecked(meetings, cache, now, k))
    /\ pc' = [pc EXCEPT ![t] = "process"]
    /\ UNCHANGED <<now, cache, running, queue, ready, todo, runs, reprocessed>>
    /\ UNCHANGED <<pipeVars, schedVars, webVars>>

\* daemon.py:272-283: the query of _process_ready_meetings
SelectReady(t) ==
    /\ pc[t] = "process"
    /\ MayRun(t)
    /\ ready' = [ready EXCEPT ![t] = ReadyMeetings(meetings)]
    /\ pc' = [pc EXCEPT ![t] = "next"]
    /\ UNCHANGED <<now, cache, meetings, running, queue, todo, runs, reprocessed>>
    /\ UNCHANGED <<pipeVars, schedVars, webVars>>

\* daemon.py:294-307: PROCESSING is committed, then the extraction is awaited
BeginMeeting(t) ==
    /\ pc[t] = "next"
    /\ MayRun(t)
    /\ ready[t] # <<>>
    /\ meetings' = SetStatus(meetings, Head(ready[t]), PROCESSING)
    /\ pc' = [pc EXCEPT ![t] = "extract"]
    /\ UNCHANGED <<now, cache, running, queue, ready, todo, runs, reprocessed>>
    /\ UNCHANGED <<pipeVars, schedVars, webVars>>

\* daemon.py:308-317: LLMError; FAILED is committed, then the alert is awaited
ExtractLLMError(t) ==
    /\ pc[t] = "extract"
    /\ MayRun(t)
    /\ meetings' = SetStatus(meetings, Head(ready[t]), FAILED)
    /\ pc' = [pc EXCEPT ![t] = "alert"]
    /\ UNCHANGED <<now, cache, running, queue, ready, todo, runs, reprocessed>>
    /\ UNCHANGED <<pipeVars, schedVars, webVars>>

\* daemon.py:312-317: send_alert returns, _process_meeting returns
AlertSent(t) ==
    /\ pc[t] = "alert"
    /\ MayRun(t)
    /\ ready' = [ready EXCEPT ![t] = Tail(ready[t])]
    /\ pc' = [pc EXCEPT ![t] = "next"]
    /\ UNCHANGED <<now, cache, meetings, running, queue, todo, runs, reprocessed>>
    /\ UNCHANGED <<pipeVars, schedVars, webVars>>

\* a daemon whose cycle gives up its list when an extraction raises
ExtractOtherError_AbortsBatch(t) ==
    /\ pc[t] = "extract"
    /\ MayRun(t)
    /\ meetings' = [meetings EXCEPT ![Head(ready[t])].status = FAILED,
                                    ![Head(ready[t])].error_message = "Processing error"]
    /\ ready' = [ready EXCEPT ![t] = <<>>]
    /\ pc' = [pc EXCEPT ![t] = "next"]
    /\ UNCHANGED <<now, cache, running, queue, todo, runs, reprocessed>>
    /\ UNCHANGED <<pipeVars, schedVars, webVars>>

\* daemon.py:318-323: any other exception of the extraction
ExtractOtherError(t) ==
    /\ pc[t] = "extract"
    /\ MayRun(t)
    /\ meetings' = [meetings EXCEPT ![Head(ready[t])].status = FAILED,
                                    ![Head(ready[t])].error_message = "Processing error"]
    /\ ready' = [ready EXCEPT ![t] = Tail(ready[t])]
    /\ pc' = [pc EXCEPT ![t] = "next"]
    /\ UNCHANGED <<now, cache, running, queue, todo, runs, reprocessed>>
    /\ UNCHANGED <<pipeVars, schedVars, webVars>>

\* a daemon that fails the meeting when one of its cards failed
MarkProcessed_UnlessCardFailed(ms, i, t) ==
    IF \E a \in DOMAIN action_items :
          action_items[a].meeting_id = i /\ action_items[a].status = FAILED
    THEN [ms EXCEPT ![i].status = FAILED]
    ELSE [ms EXCEPT ![i].status = PROCESSED, ![i].processed_at = t]

\* daemon.py:348-351
MarkProcessed(ms, i, t) ==
    [ms EXCEPT ![i].status = PROCESSED, ![i].processed_at = t]

\* daemon.py:330-339: the row of an extracted item (a deleted row stays in the
\* sequence, marked, so that the others keep their place)
NewActionItem(mi) ==
    [meeting_id     |-> mi,
     status         |-> PENDING,
     retry_count    |-> 0,
     trello_card_id |-> None,
     error_message  |-> None,
     deleted        |-> FALSE]

\* an enqueue that ignores the caller's max_attempts
add_to_retry_queue_DefaultLimit(rq, operation_type, payload, n, t) ==
    Append(rq, [operation_type |-> operation_type,
                payload        |-> payload,
                attempt_count  |-> 0,
                max_attempts   |-> max_attempts,
                next_retry_at  |-> t,
                status         |-> PENDING,
                error_message  |-> None,
                deleted        |-> FALSE])

\* an enqueue that takes over the entry of an operation of the same type
add_to_retry_queue_TakesOver(rq, operation_type, payload, n, t) ==
    IF \E e \in DOMAIN rq : rq[e].operation_type = operation_type
    THEN [e \in DOMAIN rq |->
            IF rq[e].operation_type = operation_type
            THEN [rq[e] EXCEPT !.payload = payload, !.attempt_count = 0,
                               !.next_retry_at = t, !.status = PENDING]
            ELSE rq[e]]
    ELSE Append(rq, [operation_type |-> operation_type,
                     payload        |-> payload,
                     attempt_count  |-> 0,
                     max_attempts   |-> n,
                     next_retry_at  |-> t,
                     status         |-> PENDING,
                     error_message  |-> None,
                     deleted        |-> FALSE])

\* scheduler.py:152-179
add_to_retry_queue(rq, operation_type, payload, n, t) ==
    Append(rq, [operation_type |-> operation_type,
                payload        |-> payload,
                attempt_count  |-> 0,
                max_attempts   |-> n,
                next_retry_at  |-> t,
                status         |-> PENDING,
                error_message  |-> None,
                deleted        |-> FALSE])

\* daemon.py:325-351: the extraction returned n items; with none the meeting
\* is PROCESSED at once, otherwise the first item is stored and its card awaited
ExtractOk(t) ==
    /\ pc[t] = "extract"
    /\ MayRun(t)
    /\ \E n \in 0..MaxExtracted :
        IF n = 0
        THEN /\ meetings' = MarkProcessed(meetings, Head(ready[t]), now)
             /\ ready' = [ready EXCEPT ![t] = Tail(ready[t])]
             /\ pc' = [pc EXCEPT ![t] = "next"]
             /\ UNCHANGED <<todo, action_items, action_item>>
        ELSE /\ todo' = [todo EXCEPT ![t] = n]
             /\ action_items' = Append(action_items, NewActionItem(Head(ready[t])))
             /\ action_item' = [action_item EXCEPT ![t] = Len(action_items) + 1]
             /\ pc' = [pc EXCEPT ![t] = "publish"]
             /\ UNCHANGED <<meetings, ready>>
    /\ UNCHANGED <<now, cache, running, queue, runs, reprocessed, retry_queue>>
    /\ UNCHANGED <<schedVars, webVars>>

\* daemon.py:328-351: _create_trello_card has returned (or its commit failed
\* on a deleted row and line 343 rolled back); items is the table it leaves.
\* The loop goes on with the next extracted item, and after the last one the
\* meeting is PROCESSED
AfterCard(t, items) ==
    /\ todo' = [todo EXCEPT ![t] = todo[t] - 1]
    /\ IF todo[t] = 1
       THEN /\ meetings' = MarkProcessed(meetings, Head(ready[t]), now)
            /\ ready' = [ready EXCEPT ![t] = Tail(ready[t])]
            /\ pc' = [pc EXCEPT ![t] = "next"]
            /\ action_items' = items
            /\ action_item' = [action_item EXCEPT ![t] = 0]
       ELSE /\ action_items' = Append(items, NewActionItem(Head(ready[t])))
            /\ action_item' = [action_item EXCEPT ![t] = Len(items) + 1]
            /\ UNCHANGED <<meetings, ready, pc>>
    /\ UNCHANGED <<now, cache, running, queue, runs, reprocessed>>
    /\ UNCHANGED <<schedVars, webVars>>

\* daemon.py:364-375: create_card returned the card
CardDone(t) ==
    /\ pc[t] = "publish"
    /\ MayRun(t)
    /\ AfterCard(t, IF action_items[action_item[t]].deleted THEN action_items
                    ELSE [action_items EXCEPT ![action_item[t]].trello_card_id = "card",
                                              ![action_item[t]].status = SENT])
    /\ retry_queue' = retry_queue

\* daemon.py:377-393: create_card raised TrelloError (an HTTP error status, a
\* network error or a timeout)
CardTrelloError(t) ==
    /\ pc[t] = "publish"
    /\ MayRun(t)
    /\ IF action_items[action_item[t]].deleted
       THEN /\ AfterCard(t, action_items)
            /\ retry_queue' = retry_queue
       ELSE /\ AfterCard(t, [action_items EXCEPT
                                 ![action_item[t]].status = FAILED,
                                 ![action_item[t]].error_message = "TrelloError",
                                 ![action_item[t]].retry_count = @ + 1])
            /\ retry_queue' = add_to_retry_queue(retry_queue, TRELLO_CREATE_CARD,
                                  [action_item_id |-> action_item[t],
                                   meeting_id |-> Head(ready[t])],
                                  max_attempts, now)

\* daemon.py:394-398: any other exception (a body that is not JSON, a card
\* without "id")
CardUnexpectedError(t) ==
    /\ pc[t] = "publish"
    /\ MayRun(t)
    /\ AfterCard(t, IF action_items[action_item[t]].deleted THEN action_items
                    ELSE [action_items EXCEPT
                             ![action_item[t]].status = FAILED,
                             ![action_item[t]].error_message = "Unexpected error"])
    /\ retry_queue' = retry_queue

\* daemon.py:126-136, 285-292: no READY meeting is left, the cycle is over;
\* the main loop then tests self._running (daemon.py:87)
EndCycle(t) ==
    /\ pc[t] = "next"
    /\ MayRun(t)
    /\ ready[t] = <<>>
    /\ pc' = [pc EXCEPT ![t] = IF t = "startup" THEN "done" ELSE "loop"]
    /\ UNCHANGED <<now, cache, meetings, running, queue, ready, todo, runs, reprocessed>>
    /\ UNCHANGED <<pipeVars, schedVars, webVars>>


(* ----------------------------- the main loop --------------------------- *)
\* a main loop that takes a signal and goes round without a cycle
GetSignal_NoCycle ==
    /\ pc["main"] = "wait"
    /\ MayRun("main")
    /\ queue > 0
    /\ queue' = queue - 1
    /\ pc' = [pc EXCEPT !["main"] = "loop"]
    /\ UNCHANGED <<now, cache, meetings, running, ready, todo, runs, reprocessed>>
    /\ UNCHANGED <<pipeVars, schedVars, webVars>>

\* daemon.py:90-94: queue.get() returns, _process_changes begins a cycle
GetSignal ==
    /\ pc["main"] = "wait"
    /\ MayRun("main")
    /\ queue > 0
    /\ queue' = queue - 1
    /\ pc' = [pc EXCEPT !["main"] = "detect"]
    /\ UNCHANGED <<now, cache, meetings, running, ready, todo, runs, reprocessed>>
    /\ UNCHANGED <<pipeVars, schedVars, webVars>>

\* daemon.py:90-96: wait_for times out after 5 s on an empty queue
IdleTimeout ==
    /\ pc["main"] = "wait"
    /\ MayRun("main")
    /\ queue = 0
    /\ pc' = [pc EXCEPT !["main"] = "timeout"]
    /\ UNCHANGED <<now, cache, meetings, running, queue, ready, todo, runs, reprocessed>>
    /\ UNCHANGED <<pipeVars, schedVars, webVars>>

\* daemon.py:87, 95-96: `continue`, or the end of a cycle, then the loop test
LoopAgain ==
    /\ pc["main"] \in {"timeout", "loop"}
    /\ MayRun("main")
    /\ running
    /\ pc' = [pc EXCEPT !["main"] = "wait"]
    /\ UNCHANGED <<now, cache, meetings, running, queue, ready, todo, runs, reprocessed>>
    /\ UNCHANGED <<pipeVars, schedVars, webVars>>

\* daemon.py:100-102, main.py:51: the loop ends, run() returns and asyncio.run
\* cancels the startup task where it awaits
Exit ==
    /\ pc["main"] \in {"timeout", "loop"}
    /\ MayRun("main")
    /\ ~running
    /\ pc' = [main |-> "exit",
              startup |-> IF pc["startup"] = "done" THEN "done" ELSE "cancelled"]
    /\ spc' = "cancelled"
    /\ due' = <<>>
    /\ polled' = <<>>
    /\ loaded' = NoItem
    /\ dirty' = <<>>
    /\ loops' = 0
    /\ UNCHANGED <<now, cache, meetings, running, queue, ready, todo, runs, reprocessed>>
    /\ UNCHANGED <<pipeVars, webVars, handlers, srunning, wake>>

\* main.py:43-45, daemon.py:457-463: SIGINT or SIGTERM; scheduler.stop()
\* cancels the scheduler's task where it awaits (scheduler.py:144-149), and
\* what its session has not committed is lost
Stop ==
    /\ Quiet
    /\ Alive
    /\ running
    /\ running' = FALSE
    /\ srunning' = FALSE
    /\ spc' = "cancelled"
    /\ due' = <<>>
    /\ polled' = <<>>
    /\ loaded' = NoItem
    /\ dirty' = <<>>
    /\ loops' = IF TaskAlive THEN loops - 1 ELSE loops
    /\ UNCHANGED <<now, cache, meetings, queue, pc, ready, todo, runs, reprocessed>>
    /\ UNCHANGED <<pipeVars, webVars, handlers, wake>>

\* main.py:49-52: the process is killed while its coroutines are parked
\* (SIGKILL, power failure): every task ends where it is, and the database
\* keeps what was committed
Crash ==
    /\ Quiet
    /\ Alive
    /\ running' = FALSE
    /\ srunning' = FALSE
    /\ pc' = [main |-> "exit",
              startup |-> IF pc["startup"] = "done" THEN "done" ELSE "cancelled"]
    /\ spc' = "cancelled"
    /\ due' = <<>>
    /\ polled' = <<>>
    /\ loaded' = NoItem
    /\ dirty' = <<>>
    /\ loops' = 0
    /\ UNCHANGED <<now, cache, meetings, queue, ready, todo, runs, reprocessed>>
    /\ UNCHANGED <<pipeVars, webVars, handlers, wake>>

\* watcher.py:66-70, daemon.py:119-124: the debounced callback puts a signal
Signal ==
    /\ Quiet
    /\ Alive
    /\ queue < MaxQueue
    /\ queue' = queue + 1
    /\ UNCHANGED <<now, cache, meetings, running, pc, ready, todo, runs, reprocessed>>
    /\ UNCHANGED <<pipeVars, schedVars, webVars>>

(* ------------------------------ the operator --------------------------- *)
\* web/routes/meetings.py:176-181: the action items of a meeting
ItemsOf(i) ==
    { a \in DOMAIN action_items :
        ~action_items[a].deleted /\ action_items[a].meeting_id = i }

\* web/routes/meetings.py:164-214: the retry entries and the action items of
\* the meeting are deleted, the meeting is READY again
Reprocess(i) ==
    /\ Quiet
    /\ reprocessed < MaxReprocess
    /\ i \in DOMAIN meetings
    /\ meetings' = [meetings EXCEPT ![i].status = READY, ![i].processed_at = NoTime]
    /\ retry_queue' =
          [e \in DOMAIN retry_queue |->
              IF /\ ItemsOf(i) # {}
                 /\ retry_queue[e].operation_type = TRELLO_CREATE_CARD
                 /\ \/ retry_queue[e].payload.action_item_id \in ItemsOf(i)
                    \/ retry_queue[e].payload.meeting_id = i
              THEN [retry_queue[e] EXCEPT !.deleted = TRUE]
              ELSE retry_queue[e]]
    /\ action_items' =
          [a \in DOMAIN action_items |->
              IF a \in ItemsOf(i) THEN [action_items[a] EXCEPT !.deleted = TRUE]
              ELSE action_items[a]]
    /\ reprocessed' = reprocessed + 1
    /\ UNCHANGED <<now, cache, running, queue, pc, ready, todo, runs, action_item>>
    /\ UNCHANGED <<schedVars, webVars>>

\* web/routes/meetings.py:230-251: the operator approves action item a, which
\* is PENDING; the request loads the item and its meeting and awaits Trello
ApproveBegins(a) ==
    /\ Quiet
    /\ approving = <<>>
    /\ a \in DOMAIN action_items
    /\ ~action_items[a].deleted
    /\ action_items[a].status = PENDING
    /\ approving' = <<a, meetings[action_items[a].meeting_id].status>>
    /\ UNCHANGED <<now, cache, meetings, running, queue, pc, ready, todo, runs,
                   reprocessed>>
    /\ UNCHANGED <<pipeVars, schedVars, upc, umeeting, utodo, uitem, uploads, resets>>

\* web/routes/meetings.py:252-265, 215-227: Trello has answered the approve
\* request with a card or with an error; the request assigns the item's
\* status (and card), _check_review_complete makes the meeting PROCESSED when
\* none of its items is PENDING, and the session commits what it assigned (on
\* a deleted row the commit fails and is rolled back)
ApproveReturns ==
    /\ Quiet
    /\ approving # <<>>
    /\ LET a == approving[1]
           mi == action_items[a].meeting_id
       IN  IF action_items[a].deleted
           THEN UNCHANGED <<action_items, meetings>>
           ELSE /\ \E ok \in BOOLEAN :
                     action_items' =
                        IF ok
                        THEN [action_items EXCEPT ![a].trello_card_id = "card",
                                                  ![a].status = SENT]
                        ELSE [action_items EXCEPT ![a].status = FAILED,
                                                  ![a].error_message = "TrelloError"]
                /\ meetings' =
                     IF \E b \in ItemsOf(mi) \ {a} : action_items[b].status = PENDING
                     THEN meetings
                     ELSE [meetings EXCEPT
                             ![mi].status = IF approving[2] = PROCESSED THEN @
                                            ELSE PROCESSED,
                             ![mi].processed_at = now]
    /\ approving' = <<>>
    /\ UNCHANGED <<now, cache, running, queue, pc, ready, todo, runs, reprocessed>>
    /\ UNCHANGED <<retry_queue, action_item, schedVars>>
    /\ UNCHANGED <<upc, umeeting, utodo, uitem, uploads, resets>>

\* meeting i is PROCESSING and no coroutine of a live process holds it in its
\* list of READY meetings
Orphan(i) ==
    /\ meetings[i].status = PROCESSING
    /\ \A t \in Tasks :
          pc[t] \in {"off", "done", "exit", "cancelled"} \/ i \notin Range(ready[t])

\* the operator reprocesses a meeting found stuck in PROCESSING
Unstick(i) ==
    /\ i \in DOMAIN meetings
    /\ Orphan(i)
    /\ Reprocess(i)

(* ------------------------- web/routes/upload.py ------------------------ *)
\* upload.py:62-68: the row of an uploaded transcript; status takes the
\* column's default, the maturation columns stay NULL
UploadedMeeting(txt) ==
    [granola_id      |-> None,
     transcript      |-> txt,
     transcript_hash |-> None,
     status          |-> PENDING,
     first_seen_at   |-> NoTime,
     stable_since    |-> NoTime,
     processed_at    |-> NoTime,
     error_message   |-> None]

\* upload.py:44-78: the meeting is committed, then the extraction is awaited
UploadBegin ==
    /\ Quiet
    /\ upc = "off"
    /\ uploads < MaxUploads
    /\ uploads' = uploads + 1
    /\ meetings' = Append(meetings, UploadedMeeting([len |-> 60, rev |-> 0]))
    /\ umeeting' = Len(meetings) + 1
    /\ upc' = "extract"
    /\ UNCHANGED <<now, cache, running, queue, pc, ready, todo, runs, reprocessed>>
    /\ UNCHANGED <<pipeVars, schedVars, utodo, uitem, resets, approving>>

\* upload.py:79-85 (LLMError) and 125-133 (any other exception): the request
\* ends and the meeting stays as it was committed
UploadExtractError ==
    /\ Quiet
    /\ upc = "extract"
    /\ upc' = "off"
    /\ umeeting' = 0
    /\ UNCHANGED <<now, cache, meetings, running, queue, pc, ready, todo, runs,
                   reprocessed>>
    /\ UNCHANGED <<pipeVars, schedVars, utodo, uitem, uploads, resets, approving>>

\* upload.py:116-117
UploadFinished(ms, i, t) == [ms EXCEPT ![i].processed_at = t]

\* upload.py:87-117: the extraction returned n items
UploadExtractOk ==
    /\ Quiet
    /\ upc = "extract"
    /\ \E n \in 0..MaxExtracted :
        IF n = 0
        THEN /\ meetings' = UploadFinished(meetings, umeeting, now)
             /\ upc' = "off"
             /\ umeeting' = 0
             /\ UNCHANGED <<utodo, uitem, action_items>>
        ELSE /\ utodo' = n
             /\ action_items' = Append(action_items, NewActionItem(umeeting))
             /\ uitem' = Len(action_items) + 1
             /\ upc' = "publish"
             /\ UNCHANGED <<meetings, umeeting>>
    /\ UNCHANGED <<now, cache, running, queue, pc, ready, todo, runs, reprocessed>>
    /\ UNCHANGED <<retry_queue, action_item, schedVars, uploads, resets, approving>>

\* upload.py:125-133: an exception other than TrelloError, or a commit on a
\* row that was deleted meanwhile, rolls back and ends the request
UploadAborted ==
    /\ upc' = "off"
    /\ umeeting' = 0
    /\ utodo' = 0
    /\ uitem' = 0
    /\ UNCHANGED <<meetings, action_items>>

\* upload.py:88-117: the card's outcome is committed as items; the loop goes
\* on, and after the last item processed_at is set
UploadAfterCard(items) ==
    IF utodo = 1
    THEN /\ meetings' = UploadFinished(meetings, umeeting, now)
         /\ action_items' = items
         /\ upc' = "off"
         /\ umeeting' = 0
         /\ utodo' = 0
         /\ uitem' = 0
    ELSE /\ action_items' = Append(items, NewActionItem(umeeting))
         /\ uitem' = Len(items) + 1
         /\ utodo' = utodo - 1
         /\ UNCHANGED <<meetings, upc, umeeting>>

\* upload.py:101-109, 114: create_card returned the card
UploadCardDone ==
    /\ Quiet
    /\ upc = "publish"
    /\ IF action_items[uitem].deleted THEN UploadAborted
       ELSE UploadAfterCard([action_items EXCEPT
                                ![uitem].trello_card_id = "card",
                                ![uitem].status = SENT])
    /\ UNCHANGED <<now, cache, running, queue, pc, ready, todo, runs, reprocessed>>
    /\ UNCHANGED <<retry_queue, action_item, schedVars, uploads, resets, approving>>

\* upload.py:110-114: create_card raised TrelloError
UploadCardTrelloError ==
    /\ Quiet
    /\ upc = "publish"
    /\ IF action_items[uitem].deleted THEN UploadAborted
       ELSE UploadAfterCard([action_items EXCEPT
                                ![uitem].status = FAILED,
                                ![uitem].error_message = "TrelloError"])
    /\ UNCHANGED <<now, cache, running, queue, pc, ready, todo, runs, reprocessed>>
    /\ UNCHANGED <<retry_queue, action_item, schedVars, uploads, resets, approving>>

\* upload.py:125-133: create_card raised something else
UploadCardUnexpectedError ==
    /\ Quiet
    /\ upc = "publish"
    /\ UploadAborted
    /\ UNCHANGED <<now, cache, running, queue, pc, ready, todo, runs, reprocessed>>
    /\ UNCHANGED <<retry_queue, action_item, schedVars, uploads, resets, approving>>

(* ------------------------- core/scheduler.py --------------------------- *)
\* the scheduler's task may run: every coroutine of the daemon is parked
SchedMayRun == \A t \in Tasks : pc[t] \in SuspendedPCs

\* a query that forgets the status filter
DueItems_AnyStatus(rq, t) ==
    LET idx == [e \in DOMAIN rq |-> e]
    IN  SelectSeq(idx, LAMBDA e : ~rq[e].deleted /\ rq[e].next_retry_at <= t)

\* a query that takes up again what a cancelled poll left IN_PROGRESS
DueItems_ResumesInProgress(rq, t) ==
    LET idx == [e \in DOMAIN rq |-> e]
    IN  SelectSeq(idx, LAMBDA e : /\ ~rq[e].deleted
                                  /\ rq[e].status \in {PENDING, IN_PROGRESS}
                                  /\ rq[e].next_retry_at <= t)

\* a query that forgets the time filter
DueItems_IgnoresTime(rq, t) ==
    LET idx == [e \in DOMAIN rq |-> e]
    IN  SelectSeq(idx, LAMBDA e : ~rq[e].deleted /\ rq[e].status = PENDING)

\* scheduler.py:74-82: the query of _process_pending, in table order
DueItems(rq, t) ==
    LET idx == [e \in DOMAIN rq |-> e]
    IN  SelectSeq(idx, LAMBDA e : /\ ~rq[e].deleted
                                  /\ rq[e].status = PENDING
                                  /\ rq[e].next_retry_at <= t)

\* a column the session did not assign
Keep == "keep"

\* a scheduler that never gives up
handle_failure_NeverPermanent(item, error, t) ==
    [id |-> item.id, status |-> PENDING, error_message |-> error,
     reschedule |-> TRUE,
     next_retry_at |-> t + base_delay_seconds * 2 ^ (item.attempt_count - 1)]

\* a scheduler that gives up one dispatch late
handle_failure_OneMore(item, error, t) ==
    IF item.attempt_count > item.max_attempts
    THEN [id |-> item.id, status |-> FAILED_PERMANENT, error_message |-> error,
          reschedule |-> FALSE, next_retry_at |-> NoTime]
    ELSE [id |-> item.id, status |-> PENDING, error_message |-> error,
          reschedule |-> TRUE,
          next_retry_at |-> t + base_delay_seconds * 2 ^ (item.attempt_count - 1)]

\* a scheduler that waits base_delay after every failure
handle_failure_FlatDelay(item, error, t) ==
    IF item.attempt_count >= item.max_attempts
    THEN [id |-> item.id, status |-> FAILED_PERMANENT, error_message |-> error,
          reschedule |-> FALSE, next_retry_at |-> NoTime]
    ELSE [id |-> item.id, status |-> PENDING, error_message |-> error,
          reschedule |-> TRUE, next_retry_at |-> t + base_delay_seconds]

\* scheduler.py:124-142: what _handle_failure assigns to the item at time t;
\* item is the session's copy
handle_failure(item, error, t) ==
    IF item.attempt_count >= item.max_attempts
    THEN [id |-> item.id, status |-> FAILED_PERMANENT, error_message |-> error,
          reschedule |-> FALSE, next_retry_at |-> NoTime]
    ELSE [id |-> item.id, status |-> PENDING, error_message |-> error,
          reschedule |-> TRUE,
          next_retry_at |-> t + base_delay_seconds * 2 ^ (item.attempt_count - 1)]

\* scheduler.py:115-117: what a successful handler makes _process_item assign
Succeeded(item) ==
    [id |-> item.id, status |-> SUCCEEDED, error_message |-> Keep,
     reschedule |-> FALSE, next_retry_at |-> NoTime]

\* the UPDATE of a row that was deleted meanwhile fails the commit
Stale(rq, writes) == \E i \in DOMAIN writes : rq[writes[i].id].deleted

\* scheduler.py:91, 109: session.commit() writes the assigned columns
Committed(rq, writes) ==
    [e \in DOMAIN rq |->
        LET ws == SelectSeq(writes, LAMBDA w : w.id = e)
        IN  IF ws = <<>> THEN rq[e]
            ELSE [rq[e] EXCEPT
                    !.status = ws[Len(ws)].status,
                    !.error_message = IF ws[Len(ws)].error_message = Keep THEN @
                                      ELSE ws[Len(ws)].error_message,
                    !.next_retry_at = IF ws[Len(ws)].reschedule
                                      THEN ws[Len(ws)].next_retry_at ELSE @]]

\* a handler that goes to Trello without looking its rows up
RowsMissing_NotLookedUp(payload) == FALSE

\* daemon.py:430-435: the action item or the meeting of the payload is gone
RowsMissing(payload) ==
    \/ payload.action_item_id \notin DOMAIN action_items
    \/ payload.meeting_id \notin DOMAIN meetings
    \/ action_items[payload.action_item_id].deleted

\* a lookup that falls back on the Trello handler
get_handler_WithDefault(hs, operation_type) ==
    IF hs[operation_type] = None THEN hs[TRELLO_CREATE_CARD] ELSE hs[operation_type]

\* scheduler.py:101: self.handlers.get(item.operation_type)
get_handler(hs, operation_type) == hs[operation_type]

\* scheduler.py:57-82: the loop test, the query at the start of a poll
ProcessPending ==
    /\ spc = "ready" \/ (spc = "sleep" /\ now >= wake)
    /\ SchedMayRun
    /\ srunning
    /\ due' = DueItems(retry_queue, now)
    /\ polled' = due'
    /\ spc' = "next"
    /\ UNCHANGED <<now, cache, meetings, running, queue, pc, ready, todo, runs,
                   reprocessed>>
    /\ UNCHANGED <<pipeVars, webVars, handlers, srunning, wake, loaded, dirty, loops>>

\* scheduler.py:61-65, 93-97: the poll is over (after the last commit or
\* after the rollback of a failed one), the task sleeps
EndPoll ==
    /\ spc' = "sleep"
    /\ wake' = now + PollSeconds
    /\ due' = <<>>
    /\ polled' = <<>>
    /\ loaded' = NoItem
    /\ dirty' = <<>>

\* scheduler.py:88-89, 99-122: the next item of the poll. Without a handler
\* it is skipped; otherwise IN_PROGRESS and the attempt are committed (with
\* what the item before left to commit) and the handler is called
ProcessItem ==
    /\ spc = "next"
    /\ due # <<>>
    /\ LET e == Head(due)
           item == retry_queue[e]
           handler == get_handler(handlers, item.operation_type)
           it == [id |-> e, attempt_count |-> item.attempt_count + 1,
                  max_attempts |-> item.max_attempts, handler |-> handler]
       IN  IF item.deleted \/ (handler # None /\ Stale(retry_queue, dirty))
           THEN EndPoll /\ retry_queue' = retry_queue
           ELSE IF handler = None
           THEN /\ due' = Tail(due)
                /\ polled' = polled
                /\ UNCHANGED <<retry_queue, spc, wake, loaded, dirty>>
           ELSE /\ retry_queue' = [Committed(retry_queue, dirty) EXCEPT
                                     ![e].status = IN_PROGRESS,
                                     ![e].attempt_count = @ + 1]
                /\ wake' = wake
                /\ polled' = polled
                /\ IF handler = "_retry_trello_card" /\ RowsMissing(item.payload)
                   THEN /\ dirty' = <<handle_failure(it, "Handler returned False", now)>>
                        /\ due' = Tail(due)
                        /\ UNCHANGED <<spc, loaded>>
                   ELSE /\ dirty' = <<>>
                        /\ loaded' = it
                        /\ spc' = "handler"
                        /\ due' = due
    /\ UNCHANGED <<now, cache, meetings, running, queue, pc, ready, todo, runs,
                   reprocessed>>
    /\ UNCHANGED <<action_items, action_item, webVars, handlers, srunning, loops>>

\* scheduler.py:91-97: after the last item the session commits
FinishPending ==
    /\ spc = "next"
    /\ due = <<>>
    /\ retry_queue' = IF Stale(retry_queue, dirty) THEN retry_queue
                      ELSE Committed(retry_queue, dirty)
    /\ EndPoll
    /\ UNCHANGED <<now, cache, meetings, running, queue, pc, ready, todo, runs,
                   reprocessed>>
    /\ UNCHANGED <<action_items, action_item, webVars, handlers, srunning, loops>>

\* the item whose handler is awaited has been handled
NextItem ==
    /\ due' = Tail(due)
    /\ polled' = polled
    /\ loaded' = NoItem
    /\ spc' = "next"
    /\ UNCHANGED <<now, cache, meetings, running, queue, pc, ready, todo, runs,
                   reprocessed>>
    /\ UNCHANGED <<retry_queue, action_item, webVars, handlers, srunning, wake, loops>>

\* scheduler.py:113-117, daemon.py:437-448: the handler returns True;
\* _retry_trello_card has then stored the card in its own session
HandlerSucceeds ==
    /\ spc = "handler"
    /\ SchedMayRun
    /\ IF loaded.handler = "_retry_trello_card"
       THEN /\ ~action_items[retry_queue[loaded.id].payload.action_item_id].deleted
            /\ action_items' =
                 [action_items EXCEPT
                    ![retry_queue[loaded.id].payload.action_item_id] =
                        [@ EXCEPT !.trello_card_id = "card", !.status = SENT,
                                  !.error_message = None]]
       ELSE action_items' = action_items
    /\ dirty' = <<Succeeded(loaded)>>
    /\ NextItem

\* scheduler.py:118-119, daemon.py:450-452: the handler returns False
\* (_retry_trello_card on a TrelloError)
HandlerReturnsFalse ==
    /\ spc = "handler"
    /\ SchedMayRun
    /\ action_items' = action_items
    /\ dirty' = <<handle_failure(loaded, "Handler returned False", now)>>
    /\ NextItem

\* scheduler.py:121-122: the handler raises (_retry_trello_card on anything
\* but a TrelloError, a commit on a deleted action item included)
HandlerRaises ==
    /\ spc = "handler"
    /\ SchedMayRun
    /\ action_items' = action_items
    /\ dirty' = <<handle_failure(loaded, "error", now)>>
    /\ NextItem

\* a start() that never returns early
StartReturnsEarly_Never == FALSE

\* scheduler.py:50-51
StartReturnsEarly == srunning

\* scheduler.py:48-55: a caller calls start(); create_task makes a new task
\* the scheduler's _task
SchedStart ==
    /\ Quiet
    /\ Alive
    /\ IF StartReturnsEarly
       THEN UNCHANGED <<srunning, spc, due, polled, wake, loaded, dirty, loops>>
       ELSE /\ srunning' = TRUE
            /\ spc' = "ready"
            /\ loops' = loops + 1
            /\ due' = <<>>
            /\ polled' = <<>>
            /\ wake' = 0
            /\ loaded' = NoItem
            /\ dirty' = <<>>
    /\ UNCHANGED <<now, cache, meetings, running, queue, pc, ready, todo, runs,
                   reprocessed>>
    /\ UNCHANGED <<pipeVars, webVars, handlers>>

\* scheduler.py:144-149: a caller calls stop(); cancel() ends the task where
\* it awaits (its session closes without a commit) and does nothing to a task
\* that is cancelled
SchedStop ==
    /\ Quiet
    /\ Alive
    /\ srunning' = FALSE
    /\ spc' = "cancelled"
    /\ loops' = IF TaskAlive THEN loops - 1 ELSE loops
    /\ due' = <<>>
    /\ polled' = <<>>
    /\ loaded' = NoItem
    /\ dirty' = <<>>
    /\ UNCHANGED <<now, cache, meetings, running, queue, pc, ready, todo, runs,
                   reprocessed>>
    /\ UNCHANGED <<pipeVars, webVars, handlers, wake>>

\* scheduler.py:40-46
register_handler(hs, operation_type, handler) ==
    [hs EXCEPT ![operation_type] = handler]

\* a caller registers a handler
Register(k, h) ==
    /\ Quiet
    /\ Alive
    /\ handlers[k] # h
    /\ handlers' = register_handler(handlers, k, h)
    /\ UNCHANGED <<now, cache, meetings, running, queue, pc, ready, todo, runs,
                   reprocessed>>
    /\ UNCHANGED <<pipeVars, webVars, srunning, spc, due, polled, wake, loaded, dirty, loops>>

\* a caller enqueues an operation (scheduler.py:152-179)
Enqueue(k, payload, n) ==
    /\ Quiet
    /\ Len(retry_queue) < MaxEntries
    /\ retry_queue' = add_to_retry_queue(retry_queue, k, payload, n, now)
    /\ UNCHANGED <<now, cache, meetings, running, queue, pc, ready, todo, runs,
                   reprocessed>>
    /\ UNCHANGED <<action_items, action_item, webVars, schedVars>>

\* a caller enqueues the only operation of the queue
EnqueueFirst(k, payload, n) ==
    /\ retry_queue = <<>>
    /\ Enqueue(k, payload, n)

\* a retry button that takes one attempt off without the floor of 0
trigger_retry_NoFloor(rq, e, t) ==
    [rq EXCEPT ![e].status = PENDING,
               ![e].next_retry_at = t,
               ![e].attempt_count = @ - 1]

\* a retry button that hands back every attempt
trigger_retry_AllAttempts(rq, e, t) ==
    [rq EXCEPT ![e].status = PENDING,
               ![e].next_retry_at = t,
               ![e].attempt_count = 0]

\* web/routes/retry_queue.py:70-91: the operator's "retry" button
trigger_retry(rq, e, t) ==
    [rq EXCEPT ![e].status = PENDING,
               ![e].next_retry_at = t,
               ![e].attempt_count = IF @ >= 1 THEN @ - 1 ELSE 0]

TriggerRetry(e) ==
    /\ Quiet
    /\ resets < MaxResets
    /\ e \in DOMAIN retry_queue
    /\ ~retry_queue[e].deleted
    /\ retry_queue' = trigger_retry(retry_queue, e, now)
    /\ resets' = resets + 1
    /\ UNCHANGED <<now, cache, meetings, running, queue, pc, ready, todo, runs,
                   reprocessed>>
    /\ UNCHANGED <<action_items, action_item, schedVars>>
    /\ UNCHANGED <<upc, umeeting, utodo, uitem, uploads, approving>>

\* web/routes/retry_queue.py:76-79: "retry" on an id the table does not hold
\* (never stored, or deleted meanwhile) redirects and writes nothing
TriggerRetryMissing(e) ==
    /\ Quiet
    /\ resets < MaxResets
    /\ IF e \in DOMAIN retry_queue THEN retry_queue[e].deleted ELSE TRUE
    /\ resets' = resets + 1
    /\ UNCHANGED <<now, cache, meetings, running, queue, pc, ready, todo, runs,
                   reprocessed>>
    /\ UNCHANGED <<pipeVars, schedVars>>
    /\ UNCHANGED <<upc, umeeting, utodo, uitem, uploads, approving>>

\* entry e is IN_PROGRESS and no poll is working on it: its handler is not
\* awaited and the scheduler's session holds no write for it
Stuck(e) ==
    /\ retry_queue[e].status = IN_PROGRESS
    /\ (loaded = NoItem \/ loaded.id # e)
    /\ \A i \in DOMAIN dirty : dirty[i].id # e

\* the operator presses "retry" on an entry found stuck IN_PROGRESS
ResetStuck(e) ==
    /\ e \in DOMAIN retry_queue
    /\ Stuck(e)
    /\ TriggerRetry(e)

(* ---------------------------- the environment -------------------------- *)
\* a minute passes; a queued signal is taken from the queue well before that
Tick ==
    /\ Quiet
    /\ ~(pc["main"] = "wait" /\ queue > 0)
    /\ now < MaxTicks * TickSeconds
    /\ now' = now + TickSeconds
    /\ UNCHANGED <<cache, meetings, running, queue, pc, ready, todo, runs, reprocessed>>
    /\ UNCHANGED <<pipeVars, schedVars, webVars>>

\* a minute passes where retries run; the scheduler's sleep ends on time
RetryTick ==
    /\ Quiet
    /\ ~(pc["main"] = "wait" /\ queue > 0)
    /\ ~(spc = "ready" \/ (spc = "sleep" /\ now >= wake))
    /\ now < MaxRetryTicks * TickSeconds
    /\ now' = now + TickSeconds
    /\ UNCHANGED <<cache, meetings, running, queue, pc, ready, todo, runs, reprocessed>>
    /\ UNCHANGED <<pipeVars, schedVars, webVars>>

\* a minute passes where retries run and every handler answers within it
PromptTick ==
    /\ spc # "handler"
    /\ RetryTick

\* Granola writes a document into the cache file
AddDoc(g, txt, e) ==
    /\ Quiet
    /\ Len(cache) < MaxDocs
    /\ cache' = Append(cache, [id |-> g, text |-> txt, meeting_end_count |-> e])
    /\ UNCHANGED <<now, meetings, running, queue, pc, ready, todo, runs, reprocessed>>
    /\ UNCHANGED <<pipeVars, schedVars, webVars>>

\* Granola rewrites a document's transcript
EditDoc(i, txt) ==
    /\ Quiet
    /\ i \in DOMAIN cache
    /\ txt # cache[i].text
    /\ cache' = [cache EXCEPT ![i].text = txt]
    /\ UNCHANGED <<now, meetings, running, queue, pc, ready, todo, runs, reprocessed>>
    /\ UNCHANGED <<pipeVars, schedVars, webVars>>

\* the conversation ends
EndMeeting(i) ==
    /\ Quiet
    /\ i \in DOMAIN cache
    /\ cache[i].meeting_end_count = 0
    /\ cache' = [cache EXCEPT ![i].meeting_end_count = 1]
    /\ UNCHANGED <<now, meetings, running, queue, pc, ready, todo, runs, reprocessed>>
    /\ UNCHANGED <<pipeVars, schedVars, webVars>>

\* Granola drops a document from the cache file
RemoveDoc(i) ==
    /\ Quiet
    /\ i \in DOMAIN cache
    /\ cache' = [j \in 1..(Len(cache) - 1) |-> IF j < i THEN cache[j] ELSE cache[j + 1]]
    /\ UNCHANGED <<now, meetings, running, queue, pc, ready, todo, runs, reprocessed>>
    /\ UNCHANGED <<pipeVars, schedVars, webVars>>

(* ---------------------------- specification ---------------------------- *)
Init ==
    /\ now = 0
    /\ cache = <<>>
    /\ meetings = <<>>
    /\ running = FALSE
    /\ queue = 0
    /\ pc = [t \in Tasks |-> "off"]
    /\ ready = [t \in Tasks |-> <<>>]
    /\ todo = [t \in Tasks |-> 0]
    /\ runs = 0
    /\ reprocessed = 0
    /\ action_items = <<>>
    /\ retry_queue = <<>>
    /\ action_item = [t \in Tasks |-> 0]
    /\ handlers = InitialHandlers
    /\ srunning = FALSE
    /\ spc = "off"
    /\ due = <<>>
    /\ polled = <<>>
    /\ wake = 0
    /\ loaded = NoItem
    /\ dirty = <<>>
    /\ loops = 0
    /\ upc = "off"
    /\ umeeting = 0
    /\ utodo = 0
    /\ uitem = 0
    /\ uploads = 0
    /\ resets = 0
    /\ approving = <<>>

CycleStep(t) ==
    \/ DetectNew(t)
    \/ CheckMaturation(t)
    \/ SelectReady(t)
    \/ BeginMeeting(t)
    \/ ExtractLLMError(t)
    \/ AlertSent(t)
    \/ ExtractOtherError(t)
    \/ ExtractOk(t)
    \/ CardDone(t)
    \/ EndCycle(t)

\* The daemon with its operator, under a cache in which every document is a
\* finished conversation with a full transcript.
Next ==
    \/ Run
    \/ \E t \in Tasks : CycleStep(t)
    \/ GetSignal
    \/ IdleTimeout
    \/ LoopAgain
    \/ Exit
    \/ Stop
    \/ Signal
    \/ \E i \in 1..MaxDocs : Reprocess(i)
    \/ Tick
    \/ \E g \in GranolaIds : AddDoc(g, [len |-> 60, rev |-> 0], 1)

Spec == Init /\ [][Next]_vars

\* One run of the daemon under every behaviour of the cache file for one
\* Granola document id (the cache may hold the id twice).
MatNext ==
    \/ Run
    \/ \E t \in Tasks : CycleStep(t)
    \/ GetSignal
    \/ IdleTimeout
    \/ LoopAgain
    \/ Signal
    \/ Tick
    \/ \E txt \in Texts, e \in EndCounts : AddDoc("g1", txt, e)
    \/ \E i \in 1..MaxDocs, txt \in Texts : EditDoc(i, txt)
    \/ \E i \in 1..MaxDocs : EndMeeting(i)
    \/ \E i \in 1..MaxDocs : RemoveDoc(i)

MatSpec == Init /\ [][MatNext]_vars

\* Detection by the daemon, at startup and at every change of the cache,
\* beside the upload form, under a cache of finished conversations (the cache
\* may hold an id twice), all within one reading of the clock; Trello answers
\* every card of an upload.
StoreNext ==
    \/ Run
    \/ \E t \in Tasks : DetectNew(t)
    \/ \E t \in Tasks : CheckMaturation(t)
    \/ \E t \in Tasks : SelectReady(t)
    \/ \E t \in Tasks : EndCycle(t)
    \/ GetSignal
    \/ LoopAgain
    \/ Signal
    \/ \E g \in GranolaIds : AddDoc(g, [len |-> 60, rev |-> 0], 1)
    \/ UploadBegin
    \/ UploadExtractError
    \/ UploadExtractOk
    \/ UploadCardDone

StoreSpec == Init /\ [][StoreNext]_vars

\* One run of the daemon under a cache file that Granola rewrites while a
\* conversation is going on: a cycle may find the file missing or cut short.
TornNext ==
    \/ Run
    \/ \E t \in Tasks : CycleStep(t)
    \/ \E t \in Tasks : CheckMaturationUnparsed(t)
    \/ GetSignal
    \/ LoopAgain
    \/ Signal
    \/ Tick
    \/ \E txt \in Texts : AddDoc("g1", txt, 0)
    \/ \E i \in 1..MaxDocs, txt \in Texts : EditDoc(i, txt)

TornSpec == Init /\ [][TornNext]_vars

\* One run of the daemon in which the cache file may be unreadable and a
\* commit may fail, under a cache whose documents are added, rewritten and
\* dropped; all within one reading of the clock.
PhaseNext ==
    \/ Run
    \/ \E t \in Tasks : CycleStep(t)
    \/ \E t \in Tasks : DetectNewError(t)
    \/ \E t \in Tasks : CheckMaturationError(t)
    \/ GetSignal
    \/ LoopAgain
    \/ Signal
    \/ \E g \in GranolaIds : AddDoc(g, [len |-> 30, rev |-> 0], 1)
    \/ \E i \in 1..MaxDocs : EditDoc(i, [len |-> 60, rev |-> 0])
    \/ \E i \in 1..MaxDocs : RemoveDoc(i)

PhaseSpec == Init /\ [][PhaseNext]_vars

\* The daemon killed and started again, with an operator who reprocesses the
\* meetings found stuck, under a cache that holds one finished conversation;
\* Trello answers every card.
CrashNext ==
    \/ Run
    \/ \E t \in Tasks : CycleStep(t)
    \/ GetSignal
    \/ LoopAgain
    \/ Crash
    \/ Signal
    \/ \E i \in 1..MaxDocs : Unstick(i)
    \/ Tick
    \/ AddDoc("g1", [len |-> 60, rev |-> 0], 1)

CrashSpec == Init /\ [][CrashNext]_vars

\* One run of the daemon with every outcome of the extraction and of the
\* Trello call, under a cache that holds one finished conversation.
ProcNext ==
    \/ Run
    \/ \E t \in Tasks : CycleStep(t)
    \/ \E t \in Tasks : CardTrelloError(t)
    \/ \E t \in Tasks : CardUnexpectedError(t)
    \/ GetSignal
    \/ IdleTimeout
    \/ LoopAgain
    \/ Signal
    \/ Tick
    \/ AddDoc("g1", [len |-> 60, rev |-> 0], 1)

ProcSpec == Init /\ [][ProcNext]_vars

\* ProcSpec with the scheduling the event loop gives: a coroutine that can
\* take its next step takes it (awaited calls return, fail or time out),
\* queue.get() returns a queued signal, wait_for gives up after 5 seconds,
\* and the loop of run() goes round. Signals and the clock are left to the
\* environment.
FairProcSpec ==
    /\ Init /\ [][ProcNext]_vars
    /\ WF_vars(\E t \in Tasks : CycleStep(t) \/ CardTrelloError(t)
                                  \/ CardUnexpectedError(t))
    /\ WF_vars(GetSignal)
    /\ WF_vars(IdleTimeout)
    /\ WF_vars(LoopAgain)

\* the payload callers pass to add_to_retry_queue
SomePayload == [action_item_id |-> 1, meeting_id |-> 1]

\* max_attempts values callers pass to add_to_retry_queue
AttemptLimits == (1..MaxAttemptLimit) \cup {max_attempts}

\* One run of the daemon and its retry scheduler under a cache that holds one
\* finished conversation when the daemon starts: Trello answers the daemon
\* with a card or an error, the scheduler works on the card operations the
\* daemon enqueues, and the handler creates the card, returns False or raises.
WorkNext ==
    \/ Run
    \/ \E t \in Tasks : CycleStep(t)
    \/ \E t \in Tasks : CardTrelloError(t)
    \/ GetSignal
    \/ LoopAgain
    \/ Signal
    \/ Tick
    \/ ~Alive /\ AddDoc("g1", [len |-> 60, rev |-> 0], 1)
    \/ ProcessPending
    \/ ProcessItem
    \/ FinishPending
    \/ HandlerSucceeds
    \/ HandlerReturnsFalse
    \/ HandlerRaises

WorkSpec == Init /\ [][WorkNext]_vars

\* The run of WorkSpec with an operator who approves action items on the
\* review page while the daemon and the scheduler are at work.
ReviewNext ==
    \/ Run
    \/ \E t \in Tasks : CycleStep(t)
    \/ \E t \in Tasks : CardTrelloError(t)
    \/ GetSignal
    \/ LoopAgain
    \/ Signal
    \/ Tick
    \/ ~Alive /\ AddDoc("g1", [len |-> 60, rev |-> 0], 1)
    \/ ProcessPending
    \/ ProcessItem
    \/ FinishPending
    \/ HandlerSucceeds
    \/ HandlerReturnsFalse
    \/ HandlerRaises
    \/ \E a \in 1..MaxExtracted : ApproveBegins(a)
    \/ ApproveReturns

ReviewSpec == Init /\ [][ReviewNext]_vars

\* One run of the daemon and its retry scheduler in which work arrives in
\* batches of one kind: either the cache holds conversations when the daemon
\* starts, or callers enqueue operations; the extraction and the handlers
\* fail as they like, Trello answers every card.
BatchNext ==
    \/ Run
    \/ \E t \in Tasks : CycleStep(t)
    \/ GetSignal
    \/ LoopAgain
    \/ Signal
    \/ Tick
    \/ \E g \in GranolaIds :
          retry_queue = <<>> /\ ~Alive /\ AddDoc(g, [len |-> 60, rev |-> 0], 1)
    \/ ProcessPending
    \/ ProcessItem
    \/ FinishPending
    \/ HandlerSucceeds
    \/ HandlerReturnsFalse
    \/ HandlerRaises
    \/ Register(NOTIFICATION, "h1")
    \/ cache = <<>> /\ Enqueue(NOTIFICATION, SomePayload, MaxAttemptLimit)

BatchSpec == Init /\ [][BatchNext]_vars

\* One run of the daemon under an empty cache in which callers enqueue several
\* operations and start and stop the retry scheduler as they like, and the
\* operator resets the entries found stuck; a handler answers True or False.
PollNext ==
    \/ Run
    \/ \E t \in Tasks : DetectNew(t)
    \/ \E t \in Tasks : CheckMaturation(t)
    \/ \E t \in Tasks : SelectReady(t)
    \/ \E t \in Tasks : EndCycle(t)
    \/ Tick
    \/ SchedStart
    \/ SchedStop
    \/ ProcessPending
    \/ ProcessItem
    \/ FinishPending
    \/ HandlerSucceeds
    \/ HandlerReturnsFalse
    \/ Register(NOTIFICATION, "h1")
    \/ Enqueue(NOTIFICATION, SomePayload, MaxAttemptLimit)
    \/ \E e \in 1..MaxEntries : ResetStuck(e)

PollSpec == Init /\ [][PollNext]_vars

\* One run of the daemon with its retry scheduler under an empty cache and
\* the clock: one operation that a caller enqueues goes through its retries,
\* with the handlers that callers register, and the operator has the retry
\* button.
RetryNext ==
    \/ Run
    \/ \E t \in Tasks : DetectNew(t)
    \/ \E t \in Tasks : CheckMaturation(t)
    \/ \E t \in Tasks : SelectReady(t)
    \/ \E t \in Tasks : EndCycle(t)
    \/ RetryTick
    \/ ProcessPending
    \/ ProcessItem
    \/ FinishPending
    \/ HandlerSucceeds
    \/ HandlerReturnsFalse
    \/ HandlerRaises
    \/ \E h \in {"h1", "h2"} : Register(NOTIFICATION, h)
    \/ \E k \in {TRELLO_CREATE_CARD, NOTIFICATION}, n \in AttemptLimits :
          EnqueueFirst(k, SomePayload, n)
    \/ \E e \in 1..MaxEntries : TriggerRetry(e)
    \/ \E e \in 1..MaxEntries : TriggerRetryMissing(e)

RetrySpec == Init /\ [][RetryNext]_vars

\* RetrySpec without the operator's retry button and with handlers that
\* answer within the minute
DeliveryNext ==
    \/ Run
    \/ \E t \in Tasks : DetectNew(t)
    \/ \E t \in Tasks : CheckMaturation(t)
    \/ \E t \in Tasks : SelectReady(t)
    \/ \E t \in Tasks : EndCycle(t)
    \/ PromptTick
    \/ ProcessPending
    \/ ProcessItem
    \/ FinishPending
    \/ HandlerSucceeds
    \/ HandlerReturnsFalse
    \/ HandlerRaises
    \/ \E h \in {"h1", "h2"} : Register(NOTIFICATION, h)
    \/ \E k \in {TRELLO_CREATE_CARD, NOTIFICATION}, n \in AttemptLimits :
          EnqueueFirst(k, SomePayload, n)

\* the handler that _process_item awaits returns or raises
HandlerReturns == HandlerSucceeds \/ HandlerReturnsFalse \/ HandlerRaises

\* DeliveryNext with the scheduling the event loop gives: a coroutine that can
\* take its next step takes it, the awaited handler returns or raises, the
\* sleep of _run_loop ends when its minute has passed, and the clock goes on.
FairRetrySpec ==
    /\ Init /\ [][DeliveryNext]_vars
    /\ WF_vars(\E t \in Tasks : DetectNew(t) \/ CheckMaturation(t)
                                  \/ SelectReady(t) \/ EndCycle(t))
    /\ WF_vars(ProcessPending)
    /\ WF_vars(ProcessItem)
    /\ WF_vars(FinishPending)
    /\ WF_vars(HandlerReturns)
    /\ WF_vars(PromptTick)

\* One run of the daemon under an empty cache in which callers start and stop
\* the retry scheduler as they like, while it dispatches one operation.
LifeNext ==
    \/ Run
    \/ \E t \in Tasks : DetectNew(t)
    \/ \E t \in Tasks : CheckMaturation(t)
    \/ \E t \in Tasks : SelectReady(t)
    \/ \E t \in Tasks : EndCycle(t)
    \/ Tick
    \/ SchedStart
    \/ SchedStop
    \/ ProcessPending
    \/ ProcessItem
    \/ FinishPending
    \/ HandlerSucceeds
    \/ HandlerReturnsFalse
    \/ HandlerRaises
    \/ Register(NOTIFICATION, "h1")
    \/ \E n \in AttemptLimits : EnqueueFirst(NOTIFICATION, SomePayload, n)

LifeSpec == Init /\ [][LifeNext]_vars

\* One run of the daemon with its retry scheduler under an empty cache and
\* the clock: callers enqueue card operations whose rows are gone, several at
\* a time.
QueueNext ==
    \/ Run
    \/ \E t \in Tasks : DetectNew(t)
    \/ \E t \in Tasks : CheckMaturation(t)
    \/ \E t \in Tasks : SelectReady(t)
    \/ \E t \in Tasks : EndCycle(t)
    \/ Tick
    \/ ProcessPending
    \/ ProcessItem
    \/ FinishPending
    \/ \E n \in AttemptLimits : Enqueue(TRELLO_CREATE_CARD, SomePayload, n)

QueueSpec == Init /\ [][QueueNext]_vars


(* ----------------------------- properties ------------------------------ *)
CyclePCs == {"detect", "mature", "process", "next", "extract", "alert", "publish"}

InCycle(t) == pc[t] \in CyclePCs

Rank(st) ==
    CASE st = PENDING -> 0
      [] st = READY -> 1
      [] st = PROCESSING -> 2
      [] st = PROCESSED -> 3
      [] st = FAILED -> 3

\* C1: no automated step moves a meeting to an earlier state, or from one
\* terminal state to the other: as long as the operator has reprocessed
\* nothing, the states a meeting visits are a subsequence of PENDING, READY,
\* PROCESSING, PROCESSED or FAILED.
C1_MonotonicStates ==
    [][reprocessed' = 0 =>
          \A i \in DOMAIN meetings :
              /\ i \in DOMAIN meetings'
              /\ \/ meetings'[i].status = meetings[i].status
                 \/ Rank(meetings'[i].status) > Rank(meetings[i].status)]_vars

\* C2: at most one cycle (detect, mature, process) is in flight at any time,
\* the cycle launched at startup included.
C2_SingleFlight == ~(InCycle("startup") /\ InCycle("main"))

\* C3: a cycle sets a meeting to PROCESSING, and awaits its extraction, only
\* when the meeting is READY: never one that is already PROCESSING, PROCESSED
\* or FAILED.
C3_PickedUpOnce ==
    [][\A t \in Tasks :
          (pc[t] = "next" /\ pc'[t] = "extract")
              => meetings[Head(ready[t])].status = READY]_vars

\* C4: when the wait for a change signal times out while the daemon is
\* running, a cycle is triggered.
C4_IdleTimeoutStartsCycle ==
    [][(pc["main"] = "timeout" /\ running /\ pc'["main"] # "timeout")
          => pc'["main"] = "detect"]_vars

\* MatSpec with the scheduling the event loop gives: a coroutine that can take
\* its next step takes it (awaited calls return or time out), queue.get()
\* returns a queued signal, wait_for gives up after 5 seconds, and the loop of
\* run() goes round. Signals and the clock are left to the environment.
FairMatSpec ==
    /\ Init /\ [][MatNext]_vars
    /\ WF_vars(\E t \in Tasks : CycleStep(t))
    /\ WF_vars(GetSignal)
    /\ WF_vars(IdleTimeout)
    /\ WF_vars(LoopAgain)

(* ------------------------- maturation: C5 .. C10 ------------------------ *)
\* a step of _check_meeting_maturation, taken by either task
CheckStep == \E t \in Tasks : pc[t] = "mature" /\ pc'[t] = "process"

\* a task has just returned from _check_meeting_maturation
JustChecked == \E t \in Tasks : pc[t] = "process"

\* what the cache holds for a meeting: <<>> or <<document>>
Fetched(m) == get_meeting_by_id(cache, m.granola_id)

SameFingerprint(m) ==
    /\ Fetched(m) # <<>>
    /\ compute_transcript_hash(Fetched(m)[1].text) = m.transcript_hash

\* C5: timeout escape valve. A check that examines a PENDING meeting whose
\* document is still in the cache (here with an unchanged fingerprint), first
\* seen at least max_wait_minutes ago and with at least min_transcript_length
\* characters stored, leaves it READY, whether or not the meeting has ended.
C5_TimeoutEscapeValve ==
    [][CheckStep =>
        \A i \in DOMAIN meetings :
            ( /\ IsWatched(meetings[i])
              /\ SameFingerprint(meetings[i])
              /\ TimedOut(meetings[i], now)
              /\ meetings[i].transcript.len >= min_transcript_length )
            => meetings'[i].status = READY]_vars

\* C6: dual gate. A check of a PENDING meeting whose document is in the cache
\* with an unchanged fingerprint, stable for at least the stability window,
\* long enough and not timed out, leaves it READY when the document reports an
\* ended meeting (meeting_end_count # 0) and PENDING when it does not.
C6_DualGate ==
    [][CheckStep =>
        \A i \in DOMAIN meetings :
            ( /\ IsWatched(meetings[i])
              /\ SameFingerprint(meetings[i])
              /\ now - meetings[i].stable_since >= stability_window_seconds
              /\ meetings[i].transcript.len >= min_transcript_length
              /\ ~TimedOut(meetings[i], now) )
            => meetings'[i].status =
                   IF Fetched(meetings[i])[1].meeting_end_count = 0
                   THEN PENDING ELSE READY]_vars

\* a check has just made a meeting READY through the dual gate: ended, stable
\* for the window, long enough, and not yet timed out
C6_Witness ==
    /\ JustChecked
    /\ \E i \in DOMAIN meetings :
          /\ meetings[i].status = READY
          /\ SameFingerprint(meetings[i])
          /\ Fetched(meetings[i])[1].meeting_end_count # 0
          /\ now - meetings[i].stable_since >= stability_window_seconds
          /\ meetings[i].transcript.len >= min_transcript_length
          /\ ~TimedOut(meetings[i], now)

\* C7: stability-window invariant. No step changes first_seen_at; stable_since
\* never decreases and never exceeds the clock; a check leaves stable_since as
\* it is when the fetched fingerprint equals the stored one, and sets it to the
\* time of the check, storing the fetched transcript and its fingerprint, when
\* the fingerprint differs.
C7_StabilityWindow ==
    [][\A i \in DOMAIN meetings :
          /\ i \in DOMAIN meetings'
          /\ meetings'[i].first_seen_at = meetings[i].first_seen_at
          /\ meetings'[i].stable_since >= meetings[i].stable_since
          /\ meetings'[i].stable_since <= now'
          /\ (CheckStep /\ IsWatched(meetings[i]) /\ Fetched(meetings[i]) # <<>>) =>
                IF SameFingerprint(meetings[i])
                THEN meetings'[i].stable_since = meetings[i].stable_since
                ELSE /\ meetings'[i].stable_since = now
                     /\ meetings'[i].transcript = Fetched(meetings[i])[1].text
                     /\ meetings'[i].transcript_hash =
                            compute_transcript_hash(Fetched(meetings[i])[1].text)]_vars

\* a check has just restarted the timer of a meeting first seen earlier: the
\* edited transcript is stored and the meeting is still PENDING
C7_Witness ==
    /\ JustChecked
    /\ \E i \in DOMAIN meetings :
          /\ meetings[i].status = PENDING
          /\ SameFingerprint(meetings[i])
          /\ meetings[i].stable_since = now
          /\ meetings[i].first_seen_at < now

\* C8: a check of a PENDING meeting that has timed out with fewer than
\* min_transcript_length characters stored fetches the transcript again: if the
\* fetched one is long enough the meeting stores it and is READY after that
\* check, otherwise the meeting stays PENDING.
C8_TimeoutRefetch ==
    [][CheckStep =>
        \A i \in DOMAIN meetings :
            ( /\ IsWatched(meetings[i])
              /\ Fetched(meetings[i]) # <<>>
              /\ TimedOut(meetings[i], now)
              /\ meetings[i].transcript.len < min_transcript_length )
            => IF Fetched(meetings[i])[1].text.len >= min_transcript_length
               THEN /\ meetings'[i].transcript = Fetched(meetings[i])[1].text
                    /\ meetings'[i].status = READY
               ELSE meetings'[i].status = PENDING]_vars

\* C10: idempotent detection. When _detect_new_meetings returns, every granola
\* id the cache lists has exactly one meeting, the meetings it created are
\* PENDING with first_seen_at = stable_since = the time of the run, and a
\* second run on the same cache would create nothing.
C10_IdempotentDetection ==
    [][(\E t \in Tasks : pc[t] = "detect" /\ pc'[t] = "mature") =>
        /\ \A d \in Range(parse(cache)) :
              Cardinality({i \in DOMAIN meetings' : meetings'[i].granola_id = d.id}) = 1
        /\ \A i \in DOMAIN meetings' \ DOMAIN meetings :
              /\ meetings'[i].status = PENDING
              /\ meetings'[i].first_seen_at = now
              /\ meetings'[i].stable_since = now
        /\ DetectedTable(meetings', cache, now) = meetings']_vars

\* C9: bounded wait. If checks keep being executed and the cache keeps the
\* document (here: with the transcript that is stored, and from some time on
\* without any further write to the cache), a PENDING meeting with at least
\* min_transcript_length characters stored and first seen max_wait_minutes ago
\* or earlier eventually is READY, whether or not its document ever reports the
\* meeting as ended.
C9_BoundedWait ==
    \A i \in 1..MaxDocs :
        ( /\ []<><<\E t \in Tasks : CheckMaturation(t)>>_vars
          /\ [](i \in DOMAIN meetings => SameFingerprint(meetings[i]))
          /\ <>[][cache' = cache]_vars )
        => []( ( /\ i \in DOMAIN meetings
                 /\ IsWatched(meetings[i])
                 /\ meetings[i].transcript.len >= min_transcript_length
                 /\ TimedOut(meetings[i], now) )
               => <>(i \in DOMAIN meetings /\ meetings[i].status = READY) )


(* ------------------------ stored records (StoreSpec) ------------------- *)
\* C11: no two meetings share a granola_id that is not NULL, while any
\* number of meetings (the uploaded ones) have a NULL granola_id
C11_UniqueGranolaId ==
    \A i, j \in DOMAIN meetings :
        (i # j /\ meetings[i].granola_id = meetings[j].granola_id)
            => meetings[i].granola_id = None

\* two uploaded meetings, both with a NULL id, beside two detected meetings
\* with different ids
C11_Witness ==
    /\ \E i, j \in DOMAIN meetings :
          i # j /\ meetings[i].granola_id = None /\ meetings[j].granola_id = None
    /\ \E k, l \in DOMAIN meetings :
          meetings[k].granola_id = "g1" /\ meetings[l].granola_id = "g2"

(* ------------------------ _process_meeting (ProcSpec) ------------------ *)
\* the extraction of coroutine t fails in this step
ExtractionFails(t) ==
    /\ pc[t] = "extract"
    /\ pc'[t] \in {"alert", "next"}
    /\ meetings'[Head(ready[t])].status = FAILED

\* C12: when the extraction fails (an LLMError or any other exception) the
\* meeting is FAILED with an error message that is not NULL, and no action
\* item and no retry entry is created
C12_ExtractionFailure ==
    [][\A t \in Tasks :
          ExtractionFails(t) =>
              /\ meetings'[Head(ready[t])].error_message # None
              /\ action_items' = action_items
              /\ retry_queue' = retry_queue]_vars

\* coroutine t handles the outcome of a card in this step
PublishStep(t) == pc[t] = "publish" /\ todo'[t] = todo[t] - 1

\* coroutine t leaves _process_meeting in this step, the extraction having
\* succeeded
ProcessingEnds(t) ==
    /\ pc'[t] = "next"
    /\ \/ PublishStep(t)
       \/ pc[t] = "extract" /\ ~ExtractionFails(t)

\* C13: after a successful extraction _process_meeting leaves the meeting
\* PROCESSED with processed_at set, whatever the outcomes of its cards (with
\* no item at all, too), and the outcome of a card never makes it FAILED
C13_ProcessedWhateverCards ==
    [][\A t \in Tasks :
          /\ ProcessingEnds(t) =>
                /\ meetings'[Head(ready[t])].status = PROCESSED
                /\ meetings'[Head(ready[t])].processed_at = now
          /\ PublishStep(t) =>
                \/ meetings'[Head(ready[t])].status # FAILED
                \/ meetings[Head(ready[t])].status = FAILED]_vars

\* a PROCESSED meeting with a card that was sent and a card that failed
C13_Witness ==
    \E i \in DOMAIN meetings :
        /\ meetings[i].status = PROCESSED
        /\ meetings[i].processed_at # NoTime
        /\ \E a, b \in ItemsOf(i) :
              /\ action_items[a].status = SENT
              /\ action_items[b].status = FAILED

\* the card that coroutine t awaited fails in this step
PublishFails(t) ==
    /\ PublishStep(t)
    /\ ~action_items[action_item[t]].deleted
    /\ action_items'[action_item[t]].status = FAILED

\* C14: every failure of a card in _process_meeting (a TrelloError, a timeout
\* or an unexpected error) marks the action item FAILED, adds one to its
\* retry_count and enqueues exactly one PENDING retry entry of kind
\* TRELLO_CREATE_CARD whose payload names the action item and its meeting
C14_PublishFailureEnqueued ==
    [][\A t \in Tasks :
          PublishFails(t) =>
              /\ action_items'[action_item[t]].retry_count =
                    action_items[action_item[t]].retry_count + 1
              /\ Len(retry_queue') = Len(retry_queue) + 1
              /\ SubSeq(retry_queue', 1, Len(retry_queue)) = retry_queue
              /\ retry_queue'[Len(retry_queue')].status = PENDING
              /\ retry_queue'[Len(retry_queue')].operation_type = TRELLO_CREATE_CARD
              /\ retry_queue'[Len(retry_queue')].payload =
                    [action_item_id |-> action_item[t],
                     meeting_id |-> Head(ready[t])]]_vars


(* ------------------------ the retry queue (RetrySpec) ------------------ *)
\* the scheduler's session commits, in this step, the failure of a dispatch
\* of entry e (the operator has not touched the queue)
FailureCommitted(e) ==
    /\ resets' = 0
    /\ e \in DOMAIN retry_queue
    /\ retry_queue[e].status = IN_PROGRESS
    /\ retry_queue'[e].status \in {PENDING, FAILED_PERMANENT}

\* the delays of the spec's table: 30, 60, 120, 240 s after failures 1 to 4
BackoffTable == <<30, 60, 120, 240>>

C16_PermanentOnNth ==
    [][\A e \in 1..MaxEntries :
          FailureCommitted(e) =>
              /\ retry_queue[e].attempt_count \in 1..retry_queue[e].max_attempts
              /\ (retry_queue'[e].status = FAILED_PERMANENT) <=>
                    (retry_queue[e].attempt_count = retry_queue[e].max_attempts)]_vars

\* an entry with the default max_attempts of 5 that was PENDING after each of
\* its failures 1 to 4 and is FAILED_PERMANENT after the fifth, 480 s after the
\* first
C16_Witness ==
    \E e \in DOMAIN retry_queue :
        /\ retry_queue[e].max_attempts = max_attempts
        /\ retry_queue[e].attempt_count = max_attempts
        /\ retry_queue[e].status = FAILED_PERMANENT
        /\ now = 480
        /\ resets = 0

\* models/retry_queue.py:21-25: the states no poll leaves
TerminalStatus == {SUCCEEDED, FAILED_PERMANENT}

\* C17: an entry that is SUCCEEDED or FAILED_PERMANENT is changed by no poll
\* of the scheduler; only the operator's retry makes it PENDING again
C17_TerminalImmutable ==
    [][\A e \in 1..MaxEntries :
          (e \in DOMAIN retry_queue
             /\ retry_queue[e].status \in TerminalStatus
             /\ retry_queue'[e] # retry_queue[e]) =>
              /\ resets' = resets + 1
              /\ retry_queue'[e].status = PENDING]_vars

\* a poll that has found nothing to do although a FAILED_PERMANENT entry is
\* past its time
C17_Witness ==
    /\ spc = "next"
    /\ due = <<>>
    /\ dirty = <<>>
    /\ \E e \in DOMAIN retry_queue :
          /\ retry_queue[e].status = FAILED_PERMANENT
          /\ retry_queue[e].attempt_count = 2
          /\ retry_queue[e].next_retry_at + PollSeconds <= now

\* C18: the attempt_count of every entry stays between 0 and its
\* max_attempts, also when the operator's retry falls into a dispatch in
\* flight
C18_AttemptsBounded ==
    \A e \in DOMAIN retry_queue :
        /\ 0 <= retry_queue[e].attempt_count
        /\ retry_queue[e].attempt_count <= retry_queue[e].max_attempts

\* the operator has pressed retry on an entry whose last allowed dispatch is
\* in flight
C18_Witness ==
    /\ spc = "handler"
    /\ resets = 1
    /\ loaded.attempt_count = loaded.max_attempts
    /\ retry_queue[loaded.id].status = PENDING
    /\ retry_queue[loaded.id].attempt_count = loaded.max_attempts - 1

\* C19: enqueueing an operation creates exactly one entry, PENDING, with
\* attempt_count 0, the max_attempts given and next_retry_at the time of the
\* call, and changes no entry that exists
C19_EnqueueCreatesOne ==
    [][\A k \in OperationType, n \in AttemptLimits :
          Enqueue(k, SomePayload, n) =>
              /\ Len(retry_queue') = Len(retry_queue) + 1
              /\ SubSeq(retry_queue', 1, Len(retry_queue)) = retry_queue
              /\ retry_queue'[Len(retry_queue')].status = PENDING
              /\ retry_queue'[Len(retry_queue')].attempt_count = 0
              /\ retry_queue'[Len(retry_queue')].max_attempts = n
              /\ retry_queue'[Len(retry_queue')].next_retry_at = now
              /\ retry_queue'[Len(retry_queue')].operation_type = k
              /\ retry_queue'[Len(retry_queue')].payload = SomePayload]_vars

\* a fresh entry, enqueued a minute or more after the start, behind an entry
\* that has failed for good
C19_Witness ==
    /\ Len(retry_queue) = 2
    /\ now > 0
    /\ retry_queue[1].status = FAILED_PERMANENT
    /\ retry_queue[1].attempt_count = 2
    /\ retry_queue[2].status = PENDING
    /\ retry_queue[2].attempt_count = 0
    /\ retry_queue[2].max_attempts = 1
    /\ retry_queue[2].next_retry_at = now

\* C20: a due entry whose kind has no handler is skipped, unchanged, by every
\* poll; a handler registered later replaces the one registered before, and
\* the entry is dispatched to the handler registered last
C20_SkippedUntilRegistered ==
    [][/\ (spc = "next" /\ due # <<>>
            /\ handlers[retry_queue[Head(due)].operation_type] = None) =>
               retry_queue' = retry_queue /\ spc' # "handler"
       /\ \A h \in Handlers :
             Register(NOTIFICATION, h) => handlers'[NOTIFICATION] = h
       /\ (spc = "next" /\ spc' = "handler") =>
               loaded'.handler = handlers[retry_queue[Head(due)].operation_type]]_vars

\* an entry that the poll a minute ago found due and skipped is dispatched,
\* for the first time, to the handler registered last
C20_Witness ==
    /\ spc = "handler"
    /\ loaded.handler = "h2"
    /\ resets = 0
    /\ wake = now
    /\ retry_queue[loaded.id].operation_type = NOTIFICATION
    /\ retry_queue[loaded.id].attempt_count = 1
    /\ retry_queue[loaded.id].next_retry_at + 2 * PollSeconds <= now


(* ------------------------ delivery (FairRetrySpec) --------------------- *)
\* entry e is in the queue of a running scheduler that has a handler for its
\* kind, at the first reading of the clock
Deliverable(e) ==
    /\ e \in DOMAIN retry_queue
    /\ srunning
    /\ get_handler(handlers, retry_queue[e].operation_type) # None
    /\ now = 0

\* the handler of entry e has returned True and the result waits for the
\* commit of the session
SuccessReported(e) ==
    /\ dirty # <<>>
    /\ dirty[1].id = e
    /\ dirty[1].status = SUCCEEDED

\* C21: while the scheduler keeps polling, with a handler for its kind and
\* without operator reset or crash, every entry eventually is SUCCEEDED or
\* FAILED_PERMANENT, and an entry whose handler has returned True eventually
\* is SUCCEEDED
C21_EventualDelivery ==
    \A e \in 1..MaxEntries :
        /\ Deliverable(e) ~> (/\ e \in DOMAIN retry_queue
                               /\ retry_queue[e].status \in TerminalStatus)
        /\ SuccessReported(e) ~> (/\ e \in DOMAIN retry_queue
                                   /\ retry_queue[e].status = SUCCEEDED)

\* an entry that is SUCCEEDED on its third dispatch, after two failures
C21_Witness ==
    \E e \in DOMAIN retry_queue :
        /\ retry_queue[e].status = SUCCEEDED
        /\ retry_queue[e].attempt_count = 3
        /\ retry_queue[e].error_message # None
        /\ srunning

(* ------------------------ start and stop (LifeSpec) -------------------- *)
\* C22: at most one polling loop is alive, and one is alive exactly while the
\* scheduler is running: start() on a running scheduler and stop() on a
\* stopped one change nothing, and a stopped scheduler has no task that
\* could begin a poll
C22_StartStopIdempotent ==
    /\ [](/\ loops <= 1
          /\ srunning <=> loops = 1
          /\ srunning <=> TaskAlive)
    /\ [][/\ (SchedStart /\ srunning) => UNCHANGED schedVars
          /\ (SchedStop /\ ~srunning) => UNCHANGED schedVars
          /\ ProcessPending => srunning]_vars

\* the scheduler was stopped while it awaited a handler, was started again
\* and has finished a poll: one loop, asleep, beside the entry that the
\* cancelled dispatch left IN_PROGRESS
C22_Witness ==
    /\ srunning
    /\ loops = 1
    /\ spc = "sleep"
    /\ loaded = NoItem
    /\ \E e \in DOMAIN retry_queue : retry_queue[e].status = IN_PROGRESS

(* -------------------------- signals (FairProcSpec) --------------------- *)
\* C23: while a signal is in the queue of a running daemon (it was put there
\* while the main loop waited or while a cycle was in flight) the main loop
\* eventually begins a cycle, a signal leaves the queue only by beginning a
\* cycle, and every cycle the main loop begins runs to its end
C23_SignalStartsCycle ==
    /\ (queue > 0) ~> (pc["main"] = "detect")
    /\ [][queue' < queue =>
            (pc["main"] = "wait" /\ pc'["main"] = "detect")]_vars
    /\ (pc["main"] = "detect") ~> (pc["main"] = "loop")

\* a signal waits in the queue while the cycle of the main loop awaits the
\* extraction of a meeting
C23_Witness ==
    /\ queue > 0
    /\ pc["main"] = "extract"
    /\ \E i \in DOMAIN meetings : meetings[i].status = PROCESSING

(* ---------------------- the phases of a cycle: C24 .. C28 --------------- *)
\* C24: a check of a PENDING meeting whose document the cache no longer
\* yields makes it READY and changes nothing else of it: transcript,
\* fingerprint, first_seen_at and stable_since stay as stored, whatever the
\* stability window, the stored length and the time waited.
C24_MissingDocReady ==
    [][CheckStep =>
        \A i \in DOMAIN meetings :
            (IsWatched(meetings[i]) /\ Fetched(meetings[i]) = <<>>)
            => meetings'[i] = [meetings[i] EXCEPT !.status = READY]]_vars

\* a check has just made READY a meeting whose document is gone: its stored
\* transcript is too short for either gate and it has not timed out
C24_Witness ==
    /\ JustChecked
    /\ \E i \in DOMAIN meetings :
          /\ meetings[i].status = READY
          /\ Fetched(meetings[i]) = <<>>
          /\ meetings[i].transcript.len < min_transcript_length
          /\ now - meetings[i].stable_since < stability_window_seconds
          /\ ~TimedOut(meetings[i], now)

\* a step of _detect_new_meetings, taken by either task
DetectStep == \E t \in Tasks : pc[t] = "detect" /\ pc'[t] = "mature"

\* the documents of the cache that no meeting knows
Unknown == get_new_meetings(cache, KnownIds(meetings))

\* C25: detection is all or nothing. A run of _detect_new_meetings in which
\* the cache cannot be read or the commit fails (for the unique constraint or
\* for any other reason) leaves the meetings table exactly as it was; and
\* whatever happens, the table after a run is either the table before it or
\* the table with the whole batch added.
C25_DetectAllOrNothing ==
    [][/\ \A t \in Tasks : DetectNewError(t) => meetings' = meetings
       /\ (DetectStep /\ HasDuplicateIds(Unknown)) => meetings' = meetings
       /\ DetectStep =>
             meetings' \in {meetings,
                            AddedTable(meetings, cache, now, Len(Unknown))}]_vars

\* a failed detection has just returned: the cache lists a document that no
\* meeting knows, beside a meeting detected earlier
C25_Witness ==
    /\ \E t \in Tasks : pc[t] = "mature"
    /\ meetings # <<>>
    /\ Len(Unknown) = 1
    /\ ~HasDuplicateIds(Unknown)

\* C26: when the batch of a detection holds an external id twice, only the
\* second record of that id is skipped: every id of the batch has a PENDING
\* meeting when _detect_new_meetings returns.
C26_DuplicateSkipped ==
    [][DetectStep =>
        \A d \in DOMAIN Unknown :
            \E i \in DOMAIN meetings' :
                /\ meetings'[i].granola_id = Unknown[d].id
                /\ meetings'[i].status = PENDING]_vars

\* C27: the maturation check is atomic. A run of _check_meeting_maturation in
\* which an error occurs, at whichever meeting or at the commit, leaves every
\* meeting as it was before the run, those examined before the error
\* included; and after any run the table is either the table before it or
\* the table with every examined meeting updated, never a part of the updates.
C27_MaturationAtomic ==
    [][/\ \A t \in Tasks : CheckMaturationError(t) => meetings' = meetings
       /\ CheckStep =>
             meetings' \in {meetings, CheckedTable(meetings, cache, now)}]_vars

\* a failed check has just returned: two PENDING meetings are stored as before
\* although a check would change both
C27_Witness ==
    /\ JustChecked
    /\ \E i, j \in DOMAIN meetings :
          /\ i < j
          /\ IsWatched(meetings[i]) /\ IsWatched(meetings[j])
          /\ CheckMeeting(meetings[i], cache, now) # meetings[i]
          /\ CheckMeeting(meetings[j], cache, now) # meetings[j]

\* C28: PROCESSING is committed when _process_meeting begins to await the
\* extraction; the query of _process_ready_meetings lists READY meetings only
\* and the maturation check leaves a PROCESSING meeting as it is; and a
\* meeting that is PROCESSING with no coroutine of a live process working on
\* it stays exactly as it is in every step but the operator's reprocess.
C28_ProcessingCommittedFirst ==
    [][/\ \A t \in Tasks :
            /\ (pc[t] = "next" /\ pc'[t] = "extract") =>
                  meetings'[Head(ready[t])].status = PROCESSING
            /\ (pc[t] = "process" /\ pc'[t] = "next") =>
                  \A i \in Range(ready'[t]) : meetings[i].status = READY
       /\ \A i \in DOMAIN meetings :
            /\ (CheckStep /\ meetings[i].status = PROCESSING) =>
                  meetings'[i] = meetings[i]
            /\ Orphan(i) =>
                  (meetings'[i] = meetings[i] \/ reprocessed' # reprocessed)]_vars

\* the process was killed while it awaited an extraction; the next process
\* has finished its startup cycle and the meeting is still PROCESSING
C28_Witness ==
    /\ runs = 2
    /\ pc["startup"] = "done"
    /\ pc["main"] = "wait"
    /\ \E i \in DOMAIN meetings : Orphan(i)

(* ------------------------ polls (PollSpec): C29, C30 -------------------- *)
\* a step of the scheduler's task
SchedStep == ProcessPending \/ ProcessItem \/ FinishPending \/ HandlerReturns

\* the handler of an item is invoked in this step
Dispatch == spc = "next" /\ spc' = "handler"

\* C29: the list of a poll is exactly the entries that are PENDING with
\* next_retry_at <= now when the poll begins, each once; a handler is invoked
\* only for the first entry of the list not yet handled, which is PENDING;
\* when its handler has answered the poll goes on with the rest of the list;
\* and no step of the scheduler changes an entry that is not in the list.
C29_OnlyDueDispatched ==
    /\ [](/\ \A i, j \in DOMAIN polled : i # j => polled[i] # polled[j]
          /\ \E k \in 0..Len(polled) : due = SubSeq(polled, k + 1, Len(polled)))
    /\ [][/\ ProcessPending =>
                \A e \in DOMAIN retry_queue :
                    e \in Range(polled') <=>
                        /\ ~retry_queue[e].deleted
                        /\ retry_queue[e].status = PENDING
                        /\ retry_queue[e].next_retry_at <= now
          /\ Dispatch =>
                /\ loaded'.id = Head(due)
                /\ loaded'.id \in Range(polled)
                /\ retry_queue[loaded'.id].status = PENDING
          /\ HandlerReturns => due' = Tail(due)
          /\ SchedStep =>
                \A e \in DOMAIN retry_queue :
                    e \notin Range(polled) => retry_queue'[e] = retry_queue[e]]_vars

\* the handler of the only entry of a poll is awaited while another entry,
\* IN_PROGRESS since before the poll, is not in the list
C29_Witness ==
    /\ spc = "handler"
    /\ Len(polled) = 1
    /\ \E e \in DOMAIN retry_queue :
          /\ e \notin Range(polled)
          /\ retry_queue[e].status = IN_PROGRESS
          /\ retry_queue[e].next_retry_at <= now

\* C30: when a handler is invoked the table already holds its entry as
\* IN_PROGRESS with attempt_count one higher; and an entry that a cancelled
\* poll left IN_PROGRESS is not dispatched again and stays exactly as it is
\* in every step but the operator's retry.
C30_InProgressCommittedFirst ==
    [][/\ Dispatch =>
            /\ retry_queue'[Head(due)].status = IN_PROGRESS
            /\ retry_queue'[Head(due)].attempt_count =
                   retry_queue[Head(due)].attempt_count + 1
       /\ \A e \in DOMAIN retry_queue :
            Stuck(e) =>
                /\ ~(Dispatch /\ loaded'.id = e)
                /\ retry_queue'[e] = retry_queue[e] \/ resets' # resets]_vars

\* the scheduler was stopped while it awaited the handler of an entry and
\* started again; a later poll has delivered a younger entry and the older
\* one, long due, is still IN_PROGRESS with its one attempt
C30_Witness ==
    /\ srunning
    /\ spc = "sleep"
    /\ \E e, f \in DOMAIN retry_queue :
          /\ e < f
          /\ Stuck(e)
          /\ retry_queue[e].attempt_count = 1
          /\ retry_queue[e].next_retry_at < now
          /\ retry_queue[f].status = SUCCEEDED

(* --------------------- the operator's retry (RetrySpec) ----------------- *)
\* C31: "retry" on an entry makes it PENDING and due now with attempt_count
\* one lower, and 0 when it was 0, and leaves the rest of the entry alone; on
\* an id the table does not hold it changes nothing; and a dispatch that
\* fails with attempt_count = max_attempts, as the one dispatch after a retry
\* of a FAILED_PERMANENT entry does, leaves the entry FAILED_PERMANENT.
C31_RetryGrantsOne ==
    [][\A e \in 1..MaxEntries :
          /\ TriggerRetry(e) =>
                retry_queue' =
                    [retry_queue EXCEPT
                        ![e].status = PENDING,
                        ![e].next_retry_at = now,
                        ![e].attempt_count =
                            IF retry_queue[e].attempt_count = 0 THEN 0
                            ELSE retry_queue[e].attempt_count - 1]
          /\ TriggerRetryMissing(e) => retry_queue' = retry_queue
          /\ ( /\ resets' = resets
               /\ e \in DOMAIN retry_queue
               /\ retry_queue[e].status = IN_PROGRESS
               /\ retry_queue[e].attempt_count = retry_queue[e].max_attempts
               /\ retry_queue'[e].status \in {PENDING, FAILED_PERMANENT} ) =>
                retry_queue'[e].status = FAILED_PERMANENT]_vars

\* the operator has pressed "retry" on an entry that was FAILED_PERMANENT
\* after its two attempts: it is PENDING, due now, with one attempt to go
C31_Witness ==
    /\ spc = "sleep"
    /\ resets = 1
    /\ \E e \in DOMAIN retry_queue :
          /\ retry_queue[e].status = PENDING
          /\ retry_queue[e].max_attempts = 2
          /\ retry_queue[e].attempt_count = 1
          /\ retry_queue[e].error_message # None
          /\ retry_queue[e].next_retry_at = now
          /\ now >= 2 * PollSeconds


(* ------------------ a failure and the rest of its batch ---------------- *)
\* the meeting a cycle is working on is the head of its list
Handling(t) == pc[t] \in {"extract", "alert", "publish"}

\* C32: a failure of a collaborator on one unit leaves the rest of the batch
\* in place. An extraction that fails marks the head of the cycle's list of
\* READY meetings FAILED and keeps every meeting behind it; the list loses
\* nothing but a head that was handled, every head is taken up, and the cycle
\* ends on the empty list only. A handler that returns False or raises hands
\* the poll on to the other due entries; the poll ends on the empty list only
\* and the loop, still running, sleeps one interval.
C32_FailureKeepsBatch ==
    [][/\ \A t \in Tasks :
            /\ (ExtractLLMError(t) \/ ExtractOtherError(t)) =>
                    /\ meetings'[Head(ready[t])].status = FAILED
                    /\ ready'[t] \in {ready[t], Tail(ready[t])}
            /\ (Handling(t) /\ ready'[t] # ready[t]) =>
                    ready'[t] = Tail(ready[t]) /\ pc'[t] = "next"
            /\ (pc[t] = "next" /\ ready'[t] # ready[t]) => pc'[t] = "off"
            /\ (pc[t] = "next" /\ pc'[t] = "extract") =>
                    meetings'[Head(ready[t])].status = PROCESSING
            /\ (pc[t] = "next" /\ pc'[t] \in {"done", "loop"}) => ready[t] = <<>>
       /\ (HandlerReturnsFalse \/ HandlerRaises) =>
            due' = Tail(due) /\ spc' = "next" /\ srunning'
       /\ (spc = "next" /\ due' # due) => due' = Tail(due) /\ spc' = "next"
       /\ (spc = "next" /\ spc' = "sleep") =>
            due = <<>> /\ srunning' /\ wake' = now + PollSeconds]_vars

\* the extraction of the first of two READY meetings failed and the same
\* cycle is extracting the second
C32_Witness ==
    \E t \in Tasks :
        /\ pc[t] = "extract"
        /\ ready[t] = <<2>>
        /\ meetings[1].status = FAILED
        /\ meetings[2].status = PROCESSING

(* ------------------- a card whose rows were deleted -------------------- *)
\* no action item row or no meeting row is left under the ids of payload p
Gone(p) ==
    \/ p.meeting_id \notin DOMAIN meetings
    \/ IF p.action_item_id \in DOMAIN action_items
       THEN action_items[p.action_item_id].deleted ELSE TRUE

\* the retry entry at the head of the poll is a card whose rows are gone
GoneAtHead ==
    /\ spc = "next"
    /\ due # <<>>
    /\ ~retry_queue[Head(due)].deleted
    /\ get_handler(handlers, retry_queue[Head(due)].operation_type) = "_retry_trello_card"
    /\ Gone(retry_queue[Head(due)].payload)

CycleStepTaken == \E t \in Tasks : CycleStep(t) \/ CardTrelloError(t)

\* C34: the two loops write disjoint tables. No step of the retry scheduler,
\* the card handler it awaits included, changes a meeting (status, transcript,
\* fingerprint, first_seen_at, stable_since, processed_at); no step of a
\* cycle of the daemon changes or deletes a retry entry that exists: the
\* queue after the step is the queue before it, or that queue with new
\* entries behind it.
C34_DisjointTables ==
    [][/\ SchedStep => meetings' = meetings
       /\ CycleStepTaken =>
            /\ Len(retry_queue') >= Len(retry_queue)
            /\ SubSeq(retry_queue', 1, Len(retry_queue)) = retry_queue]_vars

\* the scheduler has stored the card of an action item while the cycle that
\* enqueued it is awaiting Trello for the next item of the same meeting,
\* which is still PROCESSING
C34_Witness ==
    /\ pc["main"] = "publish"
    /\ meetings[1].status = PROCESSING
    /\ Len(retry_queue) = 1
    /\ retry_queue[1].status = SUCCEEDED
    /\ action_items[1].status = SENT
    /\ action_item["main"] = 2

(* --------------------------- after stop() ------------------------------ *)
\* C35: once stop() was called no cycle begins: a coroutine enters
\* _detect_new_meetings only while self._running is set, whatever signals
\* are queued or arrive.
C35_NoCycleAfterStop ==
    [][\A t \in Tasks : (pc[t] # "detect" /\ pc'[t] = "detect") => running']_vars

(* --------------------- transcript and fingerprint ---------------------- *)
\* C36: every meeting that came from the cache carries the fingerprint of
\* the transcript it stores, and no step writes one of the two without the
\* other.
C36_FingerprintOfTranscript ==
    /\ [](\A i \in DOMAIN meetings :
            meetings[i].granola_id # None =>
                meetings[i].transcript_hash =
                    compute_transcript_hash(meetings[i].transcript))
    /\ [][\A i \in DOMAIN meetings :
             (meetings'[i].transcript # meetings[i].transcript)
                 <=> (meetings'[i].transcript_hash # meetings[i].transcript_hash)]_vars

\* a meeting detected with a short transcript has taken the longer one the
\* cache held a minute later, fingerprint included
C36_Witness ==
    \E i \in DOMAIN meetings :
        /\ meetings[i].granola_id # None
        /\ meetings[i].stable_since > meetings[i].first_seen_at
        /\ meetings[i].transcript.len = 60
        /\ meetings[i].transcript = cache[1].text
        /\ meetings[i].transcript_hash = compute_transcript_hash(cache[1].text)

(* ------------------------ no premature READY --------------------------- *)
\* C37: a cycle makes a PENDING meeting READY only if at that check (a) the
\* cache has no record of it, or (b) the record has the stored fingerprint,
\* the transcript was stable for the stability window, is min_transcript_length
\* long and the conversation has ended, or (c) the record has the stored
\* fingerprint, max_wait_minutes have passed since first_seen_at and the
\* transcript is min_transcript_length long. A cache file that cannot be read
\* for a moment still holds its records.
C37_NoPrematureReady ==
    [][\A i \in DOMAIN meetings :
          (meetings[i].status = PENDING /\ meetings'[i].status = READY) =>
             LET m == meetings[i]
             IN  \/ Fetched(m) = <<>>
                 \/ /\ compute_transcript_hash(Fetched(m)[1].text) = m.transcript_hash
                    /\ meetings'[i].transcript = m.transcript
                    /\ m.transcript.len >= min_transcript_length
                    /\ \/ /\ now - m.stable_since >= stability_window_seconds
                          /\ Fetched(m)[1].meeting_end_count > 0
                       \/ now - m.first_seen_at >= 60 * max_wait_minutes]_vars

(* ------------------- invocations of a handler: C38 --------------------- *)
\* the handler of entry e is invoked in this step: _process_item counts the
\* attempt and calls it
Invoked(e) ==
    /\ e \in DOMAIN retry_queue
    /\ retry_queue'[e].attempt_count = retry_queue[e].attempt_count + 1

\* C38: while the operator resets nothing, the handler is invoked at most
\* max_attempts times for an entry and invocation k + 1 begins at least
\* base_delay * 2^(k-1) after invocation k. Every invocation counts one
\* attempt and the count never falls or passes max_attempts; an entry is
\* invoked only when PENDING, below max_attempts and past its next_retry_at;
\* and next_retry_at is written only after a failed invocation k, the write
\* being the time of the failure plus base_delay * 2^(k-1).
C38_InvocationsSpaced ==
    [][resets' = 0 =>
        \A e \in DOMAIN retry_queue :
            /\ retry_queue'[e].attempt_count \in
                  {retry_queue[e].attempt_count, retry_queue[e].attempt_count + 1}
            /\ (spc' = "handler" /\ spc # "handler" /\ loaded'.id = e) => Invoked(e)
            /\ Invoked(e) =>
                  /\ retry_queue[e].status = PENDING
                  /\ retry_queue[e].attempt_count < retry_queue[e].max_attempts
                  /\ retry_queue[e].next_retry_at <= now
            /\ \A i \in DOMAIN dirty' :
                  (dirty' # dirty /\ dirty'[i].id = e /\ dirty'[i].reschedule) =>
                     /\ retry_queue'[e].attempt_count >= 1
                     /\ dirty'[i].next_retry_at =
                          now + base_delay_seconds * 2 ^ (retry_queue'[e].attempt_count - 1)
            /\ retry_queue'[e].next_retry_at # retry_queue[e].next_retry_at =>
                  \E i \in DOMAIN dirty :
                      /\ dirty[i].id = e
                      /\ retry_queue'[e].next_retry_at = dirty[i].next_retry_at
                      /\ ~Invoked(e)]_vars

\* the third invocation of an entry is in flight two minutes after the
\* first, as early as the delays of 30 and 60 seconds and the polls of a
\* minute allow
C38_Witness ==
    /\ spc = "handler"
    /\ resets = 0
    /\ now = 120
    /\ retry_queue[loaded.id].attempt_count = 3
    /\ retry_queue[loaded.id].next_retry_at = 120

(* --------------------- processed_at and PROCESSED ---------------------- *)
\* C40: in every state a meeting has a processed_at exactly when its status
\* is PROCESSED, whichever path wrote it (the daemon, the operator's
\* reprocess, the upload form).
C40_ProcessedAtIffProcessed ==
    \A i \in DOMAIN meetings :
        (meetings[i].processed_at # NoTime) <=> (meetings[i].status = PROCESSED)

(* ------------------------- cards and SENT: C39 ------------------------- *)
\* the action item that retry entry e is to publish, where its row exists
CardItemOf(e) ==
    IF retry_queue[e].payload.action_item_id \in DOMAIN action_items
    THEN {a \in {retry_queue[e].payload.action_item_id} : ~action_items[a].deleted}
    ELSE {}

\* C39: while a card entry of the retry queue is SUCCEEDED, the action item
\* it names, if its row exists, is SENT and has its trello_card_id; and every
\* action item that is SENT has a trello_card_id, whoever published it.
C39_SucceededMeansSent ==
    /\ \A e \in DOMAIN retry_queue :
          (/\ ~retry_queue[e].deleted
           /\ retry_queue[e].operation_type = TRELLO_CREATE_CARD
           /\ retry_queue[e].status = SUCCEEDED) =>
              \A a \in CardItemOf(e) :
                  /\ action_items[a].status = SENT
                  /\ action_items[a].trello_card_id # None
    /\ \A a \in DOMAIN action_items :
          (~action_items[a].deleted /\ action_items[a].status = SENT) =>
              action_items[a].trello_card_id # None
====
